---- MODULE Spec2Model ----
(***************************************************************************)
(* devclean-ai: risk engine (risk.rs, ai.rs), assessment cache (cache.rs), *)
(* scan command (main.rs scan_start over scanner.rs scan_projects) and     *)
(* delete planner / executor (delete.rs, main.rs delete_execute).          *)
(*                                                                         *)
(* Strings whose contents the code inspects (project names) are sequences  *)
(* of one-character strings; Option<T> is a sequence of length 0 or 1.     *)
(***************************************************************************)
EXTENDS Integers, Sequences, FiniteSets, TLC

VARIABLES
    \* ---- risk engine, applied as pure functions -------------------------
    riskOp,      \* which function was applied: "init", "evaluate", ...
    riskMeta,    \* the ProjectMeta given to evaluate_heuristic
    riskH,       \* the heuristic assessment given to merge_risk
    riskAi,      \* the Option<&RiskAssessment> given to merge_risk
    riskReply,   \* what the AI collaborator answered to ai_assess
    riskOut,     \* Option of the RiskAssessment produced
    \* ---- assessment cache, in memory ------------------------------------
    cmEntries,   \* CacheFile.entries of a cache under test: id -> Option<CacheEntry>
    cmClock,     \* SystemTime::now() in ms, as seen by set_cached_assessment
    cmLast,      \* history: id -> Option of the last (hash, assessment) stored
    cmOp,        \* the last operation: [op, key, hash, result]
    \* ---- delete_execute -------------------------------------------------
    dPc,         \* position in delete_execute: "start", "loop", "done"
    dReq,        \* the DeleteRequest
    dFs,         \* the filesystem under the workspace: path -> node
    dQExists,    \* whether the quarantine root directory exists
    dQDir,       \* the quarantine root's entries: destination name -> node
    dClock,      \* SystemTime::now() in seconds
    dPlan,       \* the DeletePlan
    dIdx,        \* index of the plan item the loop is at
    dItems,      \* the DeleteItemPayloads pushed so far
    dRemoved,    \* removed_count
    dReclaimed,  \* reclaimed_bytes
    dResult,     \* "none", "ok" or "err": what delete_execute returned
    dFs0,        \* history: the filesystem when the plan was built
    dQ0,         \* history: the quarantine root when the request arrived
    \* ---- scan_start -----------------------------------------------------
    sPc,         \* position in scan_start: "start", "scan", "read", "assess", "done"
    sReq,        \* the ScanRequest and its surroundings: flags, root, API key
    sTree,       \* the directory tree under the root, in walk order
    sPrimary,    \* the file <root>/.devclean-cache.json
    sFallback,   \* the file <data_dir>/devclean-ai/cache/cache-<digest>.json
    sClock,      \* SystemTime::now() in ms
    sScan,       \* the ScanResult of scan_projects
    sCache,      \* the CacheFile scan_start holds in memory
    sIdx,        \* index of the project the map closure is at
    sRecords,    \* the ProjectRecords collected so far
    sStats,      \* cache_hits, cache_misses, calls
    sResult,     \* "none", or what scan_start returned: "ok" or the error
    sLog,        \* history: per project, what the closure saw and did
    \* ---- read_cache / write_cache ----------------------------------------
    stPrimary,   \* the file <root>/.devclean-cache.json
    stFallback,  \* the file <data_dir>/devclean-ai/cache/cache-<digest>.json
    stCall,      \* the last call: what it was given, what it met, what it returned
    stCount,     \* calls made so far
    \* ---- scan_projects, entry by entry -----------------------------------
    pgPc,        \* position in scan_projects: "count", "work", "projects", "done"
    pgReq,       \* the tree under root, scan_all, whether on_progress is Some
    pgPos,       \* how many entries the work pass has taken from its walker
    pgCounts,    \* total_entries, skipped_entries, found_count, scanned_count
    pgEvents,    \* the ScanProgress values handed to the callback, in order
    pgResult,    \* the ScanResult returned
    \* ---- two scan_start calls on one root, running at once --------------
    rcFile,      \* Option of the bytes of <root>/.devclean-cache.json
    rcPc,        \* per scan: "read", "assess", "write", "done"
    rcMem,       \* per scan: its `cache` variable
    rcIdx,       \* per scan: the project its map closure takes next
    rcClock,     \* SystemTime::now() in milliseconds
    rcOrder      \* the scans in the order in which their fs::write returned

riskVars == << riskOp, riskMeta, riskH, riskAi, riskReply, riskOut >>
cmVars == << cmEntries, cmClock, cmLast, cmOp >>
delVars == << dPc, dReq, dFs, dQExists, dQDir, dClock, dPlan, dIdx, dItems,
             dRemoved, dReclaimed, dResult, dFs0, dQ0 >>
scanVars == << sPc, sReq, sTree, sPrimary, sFallback, sClock, sScan, sCache, sIdx,
              sRecords, sStats, sResult, sLog >>
storeVars == << stPrimary, stFallback, stCall, stCount >>
progressVars == << pgPc, pgReq, pgPos, pgCounts, pgEvents, pgResult >>
raceVars == << rcFile, rcPc, rcMem, rcIdx, rcClock, rcOrder >>
vars == << riskVars, cmVars, delVars, scanVars, storeVars, progressVars, raceVars >>
otherThanRisk == << cmVars, delVars, scanVars, storeVars, progressVars, raceVars >>
otherThanCache == << riskVars, delVars, scanVars, storeVars, progressVars, raceVars >>
otherThanDelete == << riskVars, cmVars, scanVars, storeVars, progressVars, raceVars >>
otherThanScan == << riskVars, cmVars, delVars, storeVars, progressVars, raceVars >>
otherThanStore == << riskVars, cmVars, delVars, scanVars, progressVars, raceVars >>
otherThanProgress == << riskVars, cmVars, delVars, scanVars, storeVars, raceVars >>
otherThanRace == << riskVars, cmVars, delVars, scanVars, storeVars, progressVars >>

(***************************************************************************)
(* Bounds                                                                  *)
(***************************************************************************)
\* longest reasons list an AI reply or a stored assessment carries
MaxAiReasons == 2
\* largest value of the millisecond clock
MaxClock == 2
\* longest entries list of a DeleteRequest
MaxEntries == 2
\* last second of the clock delete_execute reads
MaxStamp == 1
\* stand-in for u64::MAX: byte counts saturate here
MaxBytes == 12
\* calls of read_cache and write_cache in one behaviour
MaxStoreCalls == 2

(***************************************************************************)
(* Strings as character sequences                                          *)
(***************************************************************************)
UpperChars == << "A", "B", "C", "D", "E", "F", "G", "H", "I", "J", "K", "L", "M",
                 "N", "O", "P", "Q", "R", "S", "T", "U", "V", "W", "X", "Y", "Z" >>
LowerChars == << "a", "b", "c", "d", "e", "f", "g", "h", "i", "j", "k", "l", "m",
                 "n", "o", "p", "q", "r", "s", "t", "u", "v", "w", "x", "y", "z" >>

to_lowercase_char(c) ==
    IF \E i \in 1..Len(UpperChars) : UpperChars[i] = c
    THEN LowerChars[CHOOSE i \in 1..Len(UpperChars) : UpperChars[i] = c]
    ELSE c

to_lowercase(s) == [i \in 1..Len(s) |-> to_lowercase_char(s[i])]

\* str::contains: sub occurs in s as a contiguous run
contains(s, sub) ==
    \E i \in 1..(Len(s) - Len(sub) + 1) : SubSeq(s, i, i + Len(sub) - 1) = sub

BURNER_HINTS ==
    { << "t", "u", "t", "o", "r", "i", "a", "l" >>,
      << "t", "e", "s", "t" >>,
      << "b", "o", "i", "l", "e", "r", "p", "l", "a", "t", "e" >>,
      << "e", "x", "a", "m", "p", "l", "e" >>,
      << "s", "a", "m", "p", "l", "e" >> }

is_burner_name(name) ==
    LET lowered == to_lowercase(name)
    IN  \E hint \in BURNER_HINTS : contains(lowered, hint)

(***************************************************************************)
(* types.rs                                                                *)
(***************************************************************************)
RiskClass == { "Critical", "Active", "Burner" }
RiskSource == { "Heuristic", "Ai", "Combined" }

RiskAssessment(c, s, r, src) ==
    [ class_name |-> c, score |-> s, reasons |-> r, source |-> src ]

None == << >>
Some(x) == << x >>
IsSome(o) == Len(o) = 1
Unwrap(o) == o[1]

U8_MAX == 255
U16_MAX == 65535
AsU8(x) == x % (U8_MAX + 1)
AsU16(x) == x % (U16_MAX + 1)

(***************************************************************************)
(* risk.rs                                                                 *)
(***************************************************************************)
\* clamp_score without the clamp: the bare `as u8` cast
clamp_score_cast_only(score) == AsU8(score)

clamp_score(score) ==
    AsU8(IF score < 0 THEN 0 ELSE IF score > 10 THEN 10 ELSE score)

\* classify with the Critical threshold off by one
classify_above_8(score) ==
    IF score > 8 THEN "Critical"
    ELSE IF score >= 5 THEN "Active"
    ELSE "Burner"

classify(score) ==
    IF score >= 8 THEN "Critical"
    ELSE IF score >= 5 THEN "Active"
    ELSE "Burner"

\* One signal of evaluate_heuristic: when triggered, add the weight and push
\* the reason.  acc is << score, reasons >>.
Signal(acc, triggered, weight, reason) ==
    IF triggered THEN << acc[1] + weight, Append(acc[2], reason) >> ELSE acc

\* evaluate_heuristic with the running score kept within 0..10 at every step
evaluate_heuristic_clamped_steps(project) ==
    LET Step(acc, triggered, weight, reason) ==
            IF triggered THEN << clamp_score(acc[1] + weight), Append(acc[2], reason) >> ELSE acc
        a0 == << 0, << >> >>
        a1 == Step(a0, project.is_cache, -4, "System cache directory")
        a2 == Step(a1, project.has_git, 4, "Git history detected")
        a3 == Step(a2, project.has_env_file, 3, "Environment file present")
        a4 == Step(a3, project.has_startup_keyword, 3, "Startup keywords in package.json")
        a5 == Step(a4, project.last_modified_days <= 30, 2, "Modified within 30 days")
        a6 == Step(a5, project.dependency_count >= 40, 1, "High dependency count")
        a7 == Step(a6, is_burner_name(project.name), -2, "Name matches tutorial/test patterns")
        a8 == Step(a7, project.last_modified_days >= 180, -1, "Inactive for 6+ months")
        score == clamp_score(a8[1])
    IN  RiskAssessment(classify(score), score, a8[2], "Heuristic")

evaluate_heuristic(project) ==
    LET a0 == << 0, << >> >>
        a1 == Signal(a0, project.is_cache, -4, "System cache directory")
        a2 == Signal(a1, project.has_git, 4, "Git history detected")
        a3 == Signal(a2, project.has_env_file, 3, "Environment file present")
        a4 == Signal(a3, project.has_startup_keyword, 3, "Startup keywords in package.json")
        a5 == Signal(a4, project.last_modified_days <= 30, 2, "Modified within 30 days")
        a6 == Signal(a5, project.dependency_count >= 40, 1, "High dependency count")
        a7 == Signal(a6, is_burner_name(project.name), -2, "Name matches tutorial/test patterns")
        a8 == Signal(a7, project.last_modified_days >= 180, -1, "Inactive for 6+ months")
        score == clamp_score(a8[1])
    IN  RiskAssessment(classify(score), score, a8[2], "Heuristic")

SeqContains(s, x) == \E i \in 1..Len(s) : s[i] = x

\* the loop of merge_risk without the contains test
ExtendReasonsAppendAll(reasons, more) == reasons \o more

\* the loop of merge_risk: push every reason of `more` not yet in `reasons`
RECURSIVE ExtendReasons(_, _)
ExtendReasons(reasons, more) ==
    IF more = << >> THEN reasons
    ELSE ExtendReasons(
            IF SeqContains(reasons, Head(more)) THEN reasons
            ELSE Append(reasons, Head(more)),
            Tail(more))

\* merge_risk with the average rounded half up
merge_risk_rounded(heuristic, ai) ==
    IF ~IsSome(ai) THEN heuristic
    ELSE LET ai_assessment == Unwrap(ai)
             avg == AsU8((heuristic.score + ai_assessment.score + 1) \div 2)
         IN  RiskAssessment(classify(avg), avg,
                            ExtendReasons(heuristic.reasons, ai_assessment.reasons),
                            "Combined")

merge_risk(heuristic, ai) ==
    IF ~IsSome(ai) THEN heuristic
    ELSE LET ai_assessment == Unwrap(ai)
             avg == AsU8(AsU16(AsU16(heuristic.score) + AsU16(ai_assessment.score)) \div 2)
         IN  RiskAssessment(classify(avg), avg,
                            ExtendReasons(heuristic.reasons, ai_assessment.reasons),
                            "Combined")

(***************************************************************************)
(* ai.rs                                                                   *)
(***************************************************************************)
classify_score(score) ==
    IF score >= 8 THEN "Critical"
    ELSE IF score >= 5 THEN "Active"
    ELSE "Burner"

Min(a, b) == IF a <= b THEN a ELSE b

\* What the collaborator did with one request: the transport failed, the
\* body was no GeminiResponse, the status was no success, the response held
\* no text, the text was no AiPayload, or it was the payload given.
AiFailures == { "send", "response_json", "status", "missing_text", "payload_json" }

Ok(x) == [ ok |-> TRUE, val |-> x ]
Err(e) == [ ok |-> FALSE, err |-> e ]

\* ai_assess without the test of the status
ai_assess_status_unchecked(reply) ==
    IF reply.kind = "send" THEN Err("AI request failed")
    ELSE IF reply.kind = "response_json" THEN Err("AI response parse failed")
    ELSE IF reply.kind = "missing_text" THEN Err("AI response missing text")
    ELSE IF reply.kind = "payload_json" THEN Err("AI JSON parse failed")
    ELSE LET score == Min(reply.score, 10)
         IN  Ok(RiskAssessment(classify_score(score), score, reply.reasons, "Ai"))

ai_assess(reply) ==
    IF reply.kind = "send" THEN Err("AI request failed")
    ELSE IF reply.kind = "response_json" THEN Err("AI response parse failed")
    ELSE IF reply.kind = "status" THEN Err("AI request failed with status")
    ELSE IF reply.kind = "missing_text" THEN Err("AI response missing text")
    ELSE IF reply.kind = "payload_json" THEN Err("AI JSON parse failed")
    ELSE LET score == Min(reply.score, 10)
         IN  Ok(RiskAssessment(classify_score(score), score, reply.reasons, "Ai"))

merge_with_ai(heuristic, ai) == merge_risk(heuristic, Some(ai))

(***************************************************************************)
(* cache.rs: the in-memory CacheFile                                       *)
(***************************************************************************)
\* project identities (ProjectMeta.id: the project directory's path)
ProjectIds == { << "r", "a" >>, << "r", "b" >> }

\* Sha256 digests, hex encoded.  Contents are small numbers; the digest of a
\* content is a value of its own, distinct for distinct contents.
Contents == { 1, 2 }
Sha256Hex(content) == IF content = 1 THEN "d1" ELSE IF content = 2 THEN "d2" ELSE "d3"
Digests == { "d1", "d2", "d0" }

CacheEntry(hash, assessment, updated_at) ==
    [ hash |-> hash, assessment |-> assessment, updated_at |-> updated_at ]

\* CacheFile::default().entries: the empty HashMap
DefaultEntries == [ id \in { } |-> None ]

CacheFile(version, entries) == [ version |-> version, entries |-> entries ]

\* CacheFile::default()
DefaultCacheFile == CacheFile(1, DefaultEntries)

\* get_cached_assessment without the hash filter
get_cached_assessment_any_hash(entries, key, hash) ==
    IF key \in DOMAIN entries THEN Some(entries[key].assessment) ELSE None

get_cached_assessment(entries, key, hash) ==
    IF key \in DOMAIN entries /\ entries[key].hash = hash
    THEN Some(entries[key].assessment)
    ELSE None

\* HashMap::insert
MapInsert(map, key, value) ==
    [ k \in (DOMAIN map) \cup { key } |-> IF k = key THEN value ELSE map[k] ]

set_cached_assessment(entries, key, hash, assessment, now) ==
    MapInsert(entries, key, CacheEntry(hash, assessment, now))

(***************************************************************************)
(* Inputs of the risk engine                                               *)
(***************************************************************************)
ProjectNames ==
    { << "a", "p", "p" >>,
      << "M", "y", "T", "E", "S", "T" >>,
      << "d", "e", "m", "o" >>,
      << "S", "a", "m", "p", "l", "e", "s" >> }
DaysValues == { -1, 0, 30, 31, 179, 180, 400 }
DependencyCounts == { 0, 39, 40 }

Meta(name, c, g, e, k, days, deps) ==
    [ name |-> name, is_cache |-> c, has_git |-> g, has_env_file |-> e,
      has_startup_keyword |-> k, last_modified_days |-> days, dependency_count |-> deps ]

Metas ==
    { Meta(n, c, g, e, k, d, dc) :
        n \in ProjectNames, c \in BOOLEAN, g \in BOOLEAN, e \in BOOLEAN, k \in BOOLEAN,
        d \in DaysValues, dc \in DependencyCounts }

AiReasonPool == { "Git history detected", "Looks unused", "Has deploy scripts" }

RECURSIVE SeqsUpTo(_, _)
SeqsUpTo(S, n) ==
    IF n = 0 THEN { << >> }
    ELSE LET shorter == SeqsUpTo(S, n - 1)
         IN  shorter \cup { Append(s, x) : s \in { t \in shorter : Len(t) = n - 1 }, x \in S }

AiReasonLists == SeqsUpTo(AiReasonPool, MaxAiReasons)

\* replies of the collaborator: a failure, or a payload whose score is any u8
AiReplies ==
    { [ kind |-> f, score |-> 0, class_name |-> "Burner", reasons |-> << >> ] : f \in AiFailures }
    \cup
    { [ kind |-> "payload", score |-> s, class_name |-> c, reasons |-> r ] :
        s \in { 0, 4, 5, 7, 8, 10, 11, U8_MAX }, c \in { "Burner", "Critical" },
        r \in AiReasonLists }

\* assessments as a cache file may hold them: the file is JSON anyone can
\* write, so the class need not match the score and the score is any u8
StoredAssessments ==
    { RiskAssessment(c, s, r, "Ai") :
        c \in RiskClass, s \in { 0, 9, 10, 200, U8_MAX }, r \in AiReasonLists }

HeuristicOutputs == { evaluate_heuristic(m) : m \in Metas }
AiOutputs == { ai_assess(r).val : r \in { x \in AiReplies : x.kind = "payload" } }

\* arbitrary assessments with scores in 0..10, as merge_risk's signature admits
RawHeuristics ==
    { RiskAssessment(c, s, r, src) :
        c \in RiskClass, s \in 0..10,
        r \in { << >>, << "Git history detected" >>,
                << "Git history detected", "Environment file present" >> },
        src \in { "Heuristic", "Combined" } }
RawAis ==
    { RiskAssessment(c, s, r, "Ai") :
        c \in { "Burner", "Critical" }, s \in 0..10, r \in AiReasonLists }

NoMeta == Meta(<< >>, FALSE, FALSE, FALSE, FALSE, 0, 0)
NoAssessment == RiskAssessment("Burner", 0, << >>, "Heuristic")
NoReply == [ kind |-> "send", score |-> 0, class_name |-> "Burner", reasons |-> << >> ]

RiskIdle ==
    /\ riskOp = "init"
    /\ riskMeta = NoMeta
    /\ riskH = NoAssessment
    /\ riskAi = None
    /\ riskReply = NoReply
    /\ riskOut = None

RiskEvaluate ==
    /\ riskOp = "init"
    /\ \E m \in Metas :
        /\ riskMeta' = m
        /\ riskOut' = Some(evaluate_heuristic(m))
    /\ riskOp' = "evaluate"
    /\ UNCHANGED << riskH, riskAi, riskReply, otherThanRisk >>

RiskAiAssess ==
    /\ riskOp = "init"
    /\ \E r \in AiReplies :
        /\ riskReply' = r
        /\ riskOut' = IF ai_assess(r).ok THEN Some(ai_assess(r).val) ELSE None
    /\ riskOp' = "ai_assess"
    /\ UNCHANGED << riskMeta, riskH, riskAi, otherThanRisk >>

\* merge_risk on any two assessments with scores in 0..10
RiskMerge ==
    /\ riskOp = "init"
    /\ \E h \in RawHeuristics, ai \in { None } \cup { Some(a) : a \in RawAis } :
        /\ riskH' = h
        /\ riskAi' = ai
        /\ riskOut' = Some(merge_risk(h, ai))
    /\ riskOp' = "merge"
    /\ UNCHANGED << riskMeta, riskReply, otherThanRisk >>

\* merge_risk as scan_start reaches it: the heuristic comes from
\* evaluate_heuristic, the other from ai_assess or from the cache file
RiskMergeScan ==
    /\ riskOp = "init"
    /\ \E h \in HeuristicOutputs,
          ai \in { None } \cup { Some(a) : a \in AiOutputs \cup StoredAssessments } :
        /\ riskH' = h
        /\ riskAi' = ai
        /\ riskOut' = Some(merge_risk(h, ai))
    /\ riskOp' = "merge_scan"
    /\ UNCHANGED << riskMeta, riskReply, otherThanRisk >>

(***************************************************************************)
(* The cache under a sequence of stores and lookups                        *)
(***************************************************************************)
CacheAssessments ==
    { RiskAssessment("Burner", 2, << >>, "Ai"),
      RiskAssessment("Active", 6, << "Looks unused" >>, "Ai"),
      RiskAssessment("Critical", 9, << "Has deploy scripts" >>, "Ai") }

NoCmOp == [ op |-> "init", key |-> << >>, hash |-> "", result |-> None ]

CmIdle ==
    /\ cmEntries = DefaultEntries
    /\ cmClock = 0
    /\ cmLast = [ id \in ProjectIds |-> None ]
    /\ cmOp = NoCmOp

CacheStore ==
    \E key \in ProjectIds, hash \in Digests, a \in CacheAssessments, now \in cmClock..MaxClock :
        /\ cmEntries' = set_cached_assessment(cmEntries, key, hash, a, now)
        /\ cmClock' = now
        /\ cmLast' = [ cmLast EXCEPT ![key] = Some([ hash |-> hash, assessment |-> a ]) ]
        /\ cmOp' = [ op |-> "store", key |-> key, hash |-> hash, result |-> None ]
        /\ UNCHANGED otherThanCache

CacheLookup ==
    \E key \in ProjectIds, hash \in Digests :
        /\ cmOp' = [ op |-> "lookup", key |-> key, hash |-> hash,
                     result |-> get_cached_assessment(cmEntries, key, hash) ]
        /\ UNCHANGED << cmEntries, cmClock, cmLast, otherThanCache >>

(***************************************************************************)
(* The filesystem delete_execute works on                                  *)
(*                                                                         *)
(* A path is the sequence of its components.  Two project directories,     *)
(* /w/a and /w/a_1, each with the subpaths the planner looks for.  A node  *)
(* is absent, a directory, a regular file or a symbolic link; a link's     *)
(* referent lies outside the workspace and is a directory, and `alive`     *)
(* says whether the link resolves from where it now lies.                  *)
(***************************************************************************)
ProjA == << "w", "a" >>
ProjA1 == << "w", "a_1" >>
join(path, name) == Append(path, name)
Paths ==
    { ProjA, join(ProjA, "node_modules"), join(ProjA, ".cache"),
      ProjA1, join(ProjA1, "node_modules") }

Node(kind, alive) == [ kind |-> kind, alive |-> alive ]
Absent == Node("absent", FALSE)
DirNode == Node("dir", TRUE)
FileNode == Node("file", TRUE)
LinkNode(alive) == Node("link", alive)

IsPrefix(p, q) == Len(p) <= Len(q) /\ SubSeq(q, 1, Len(p)) = p
\* the paths strictly below p
Below(p) == { q \in Paths : q # p /\ IsPrefix(p, q) }

\* Path::exists: follows symbolic links, false for a broken one
exists(fs, path) ==
    /\ path \in DOMAIN fs
    /\ \/ fs[path].kind \in { "dir", "file" }
       \/ fs[path].kind = "link" /\ fs[path].alive

\* Path::is_file: follows symbolic links; every referent here is a directory
is_file(fs, path) == path \in DOMAIN fs /\ fs[path].kind = "file"

file_name(path) == path[Len(path)]

\* bytes of the regular files a node holds itself: a file's length, or the
\* files lying directly in a directory
Bytes(path) ==
    IF path = ProjA THEN 1
    ELSE IF path = join(ProjA, "node_modules") THEN 5
    ELSE IF path = join(ProjA, ".cache") THEN 4
    ELSE IF path = ProjA1 THEN 1
    ELSE 6
\* bytes of the directory a live link refers to
LinkedBytes == 3

RECURSIVE SumBytes(_)
SumBytes(S) ==
    IF S = { } THEN 0
    ELSE LET p == CHOOSE x \in S : TRUE IN Bytes(p) + SumBytes(S \ { p })

\* delete.rs directory_size_bytes: a file's own length, else the sum of the
\* regular files found walking the tree without following links below its root
directory_size_bytes(fs, dir) ==
    IF fs[dir].kind = "file" THEN Bytes(dir)
    ELSE IF fs[dir].kind = "link" THEN (IF fs[dir].alive THEN LinkedBytes ELSE 0)
    ELSE IF fs[dir].kind = "absent" THEN 0
    ELSE SumBytes({ q \in Paths : IsPrefix(dir, q) /\ fs[q].kind \in { "dir", "file" } })

saturating_add(a, b) == IF a + b > MaxBytes THEN MaxBytes ELSE a + b

path_id(path) == path

(***************************************************************************)
(* delete.rs                                                               *)
(***************************************************************************)
DeleteEntry(path, is_cache) == [ path |-> path, is_cache |-> is_cache ]
DeletePlanItem(path, size_bytes) == [ path |-> path, size_bytes |-> size_bytes ]

\* the loop without its `seen` set: every candidate that exists is pushed
PushCandidatesNoSeen(fs, acc, candidates) ==
    acc \o SelectSeq(candidates, LAMBDA candidate : exists(fs, candidate))

\* push the candidates that exist and were not seen; acc is the targets Vec
\* (the `seen` set holds exactly the path ids of the targets pushed)
RECURSIVE PushCandidates(_, _, _)
PushCandidates(fs, acc, candidates) ==
    IF candidates = << >> THEN acc
    ELSE LET candidate == Head(candidates)
             next == IF ~exists(fs, candidate) THEN acc
                     ELSE IF SeqContains(acc, path_id(candidate)) THEN acc
                     ELSE Append(acc, candidate)
         IN  PushCandidates(fs, next, Tail(candidates))

\* the loop body without its `continue`: the entry's own path is a target too
TargetsOfEntryFallThrough(fs, acc, entry, deps_only) ==
    PushCandidates(fs,
        IF deps_only /\ ~entry.is_cache
        THEN PushCandidates(fs, acc,
                << join(entry.path, "node_modules"), join(entry.path, ".cache") >>)
        ELSE acc,
        << entry.path >>)

\* one iteration of collect_targets' loop over the entries
TargetsOfEntry(fs, acc, entry, deps_only) ==
    IF deps_only /\ ~entry.is_cache
    THEN PushCandidates(fs, acc,
            << join(entry.path, "node_modules"), join(entry.path, ".cache") >>)
    ELSE PushCandidates(fs, acc, << entry.path >>)

RECURSIVE CollectFrom(_, _, _, _)
CollectFrom(fs, acc, entries, deps_only) ==
    IF entries = << >> THEN acc
    ELSE CollectFrom(fs, TargetsOfEntry(fs, acc, Head(entries), deps_only),
                     Tail(entries), deps_only)

collect_targets(fs, entries, deps_only) == CollectFrom(fs, << >>, entries, deps_only)

RECURSIVE SumSizes(_, _)
SumSizes(items, total) ==
    IF items = << >> THEN total
    ELSE SumSizes(Tail(items), saturating_add(total, Head(items).size_bytes))

build_delete_plan(fs, entries, deps_only) ==
    LET targets == collect_targets(fs, entries, deps_only)
        items == [ i \in 1..Len(targets) |->
                     DeletePlanItem(targets[i], directory_size_bytes(fs, targets[i])) ]
    IN  [ items |-> items, total_bytes |-> SumSizes(items, 0) ]

(***************************************************************************)
(* main.rs delete_execute                                                  *)
(***************************************************************************)
DeleteItemPayload(path, size_bytes, action, status, destination, original_path) ==
    [ path |-> path, size_bytes |-> size_bytes, action |-> action, status |-> status,
      destination |-> destination, original_path |-> original_path ]

\* A status string is the sequence of the pieces it was formatted from:
\* "moved".to_string() is << "moved" >>, format!("error: {error}") is the
\* prefix followed by the message.
Status(text) == << text >>
ErrorStatus(message) == << "error: ", message >>

\* the status of a removal given to a move as well
know_action_status_deleted(quarantine) == Status("deleted")

know_action_status(quarantine) == IF quarantine THEN Status("moved") ELSE Status("deleted")

\* A file name as the pieces between its underscores, so that a formatted
\* destination is the sequence of its pieces: "1_a_1" is << "1", "a", "1" >>
\* whether it came from the name "a_1" or from the name "a" and counter 1.
Pieces(name) ==
    IF name = "a" THEN << "a" >>
    ELSE IF name = "a_1" THEN << "a", "1" >>
    ELSE IF name = "node_modules" THEN << "node", "modules" >>
    ELSE << name >>

\* format!("{stamp}_{name}") and format!("{stamp}_{name}_{counter}")
FormatDest(stamp, name) == << ToString(stamp) >> \o Pieces(name)
FormatDestCounter(stamp, name, counter) ==
    << ToString(stamp) >> \o Pieces(name) \o << ToString(counter) >>

\* destination.exists() of a name in the quarantine root
dest_exists(qdir, dest) ==
    /\ dest \in DOMAIN qdir
    /\ \/ qdir[dest].kind \in { "dir", "file" }
       \/ qdir[dest].kind = "link" /\ qdir[dest].alive

\* the while loop: the first counter whose name does not exist
RECURSIVE NextFreeDest(_, _, _, _)
NextFreeDest(qdir, stamp, name, counter) ==
    LET destination == FormatDestCounter(stamp, name, counter)
    IN  IF dest_exists(qdir, destination)
        THEN NextFreeDest(qdir, stamp, name, counter + 1)
        ELSE destination

ChooseDestination(qdir, stamp, name) ==
    IF dest_exists(qdir, FormatDest(stamp, name))
    THEN NextFreeDest(qdir, stamp, name, 1)
    ELSE FormatDest(stamp, name)

\* the filesystem without path and everything below it
RemoveTree(fs, path) ==
    [ q \in DOMAIN fs |-> IF IsPrefix(path, q) THEN Absent ELSE fs[q] ]

\* the quarantine root with `node` at `dest`, replacing what lay there
PutDest(qdir, dest, node) ==
    [ d \in (DOMAIN qdir) \cup { dest } |-> IF d = dest THEN node ELSE qdir[d] ]

\* requests and filesystems
EntryChoices == { DeleteEntry(p, c) : p \in { ProjA, ProjA1 }, c \in BOOLEAN }
Requests ==
    [ entries : SeqsUpTo(EntryChoices, MaxEntries),
      deps_only : BOOLEAN, dry_run : BOOLEAN, quarantine : BOOLEAN ]

\* a filesystem is well formed: what lies below a path lies in a directory
WellFormed(fs) ==
    \A p \in Paths : \A q \in Below(p) : fs[q].kind # "absent" => fs[p].kind = "dir"

Filesystems ==
    { fs \in [ Paths -> { Absent, DirNode, FileNode, LinkNode(TRUE) } ] :
        /\ WellFormed(fs)
        /\ fs[ProjA] = DirNode
        /\ fs[ProjA1].kind \in { "absent", "dir" }
        /\ fs[join(ProjA, ".cache")].kind \in { "absent", "dir" }
        /\ fs[ProjA1].kind = "dir" => fs[join(ProjA1, "node_modules")].kind # "absent" }

EmptyDir == [ d \in { } |-> Absent ]
\* what an earlier run left in the quarantine root: nothing, or a
\* directory moved there in second 0
LeftoverDirs ==
    { EmptyDir, [ d \in { FormatDest(0, "node_modules") } |-> DirNode ] }

NoPlan == [ items |-> << >>, total_bytes |-> 0 ]

DeleteInit ==
    /\ dPc = "start"
    /\ dReq \in Requests
    /\ dFs \in Filesystems
    /\ dQExists \in BOOLEAN
    /\ dQDir \in IF dQExists THEN LeftoverDirs ELSE { EmptyDir }
    /\ dClock = 0
    /\ dPlan = NoPlan
    /\ dIdx = 1
    /\ dItems = << >>
    /\ dRemoved = 0
    /\ dReclaimed = 0
    /\ dResult = "none"
    /\ dFs0 = dFs
    /\ dQ0 = [ exists |-> dQExists, dir |-> dQDir ]

DeleteIdle ==
    /\ dPc = "idle"
    /\ dReq = [ entries |-> << >>, deps_only |-> FALSE, dry_run |-> FALSE, quarantine |-> FALSE ]
    /\ dFs = [ p \in Paths |-> Absent ]
    /\ dQExists = FALSE
    /\ dQDir = EmptyDir
    /\ dClock = 0
    /\ dPlan = NoPlan
    /\ dIdx = 1
    /\ dItems = << >>
    /\ dRemoved = 0
    /\ dReclaimed = 0
    /\ dResult = "none"
    /\ dFs0 = dFs
    /\ dQ0 = [ exists |-> FALSE, dir |-> EmptyDir ]

ActionName(quarantine) == IF quarantine THEN "quarantine" ELSE "delete"

DryRunItems(plan, action) ==
    [ i \in 1..Len(plan.items) |->
        DeleteItemPayload(plan.items[i].path, plan.items[i].size_bytes,
                          action, Status("dry-run"), None, None) ]

\* delete_execute with dry_run set, creating the quarantine root before it
\* looks at the flag
DeleteDryRunAfterRoot ==
    /\ dPc = "start"
    /\ dReq.dry_run
    /\ LET plan == build_delete_plan(dFs, dReq.entries, dReq.deps_only)
       IN  /\ dPlan' = plan
           /\ dItems' = DryRunItems(plan, ActionName(dReq.quarantine))
           /\ dRemoved' = 0
           /\ dReclaimed' = plan.total_bytes
    /\ dQExists' = (dQExists \/ dReq.quarantine)
    /\ dResult' = "ok"
    /\ dPc' = "done"
    /\ UNCHANGED << dReq, dFs, dQDir, dClock, dIdx, dFs0, dQ0, otherThanDelete >>

\* delete_execute with dry_run set: the plan, then the return
DeleteDryRun ==
    /\ dPc = "start"
    /\ dReq.dry_run
    /\ LET plan == build_delete_plan(dFs, dReq.entries, dReq.deps_only)
       IN  /\ dPlan' = plan
           /\ dItems' = DryRunItems(plan, ActionName(dReq.quarantine))
           /\ dRemoved' = 0
           /\ dReclaimed' = plan.total_bytes
    /\ dResult' = "ok"
    /\ dPc' = "done"
    /\ UNCHANGED << dReq, dFs, dQExists, dQDir, dClock, dIdx, dFs0, dQ0, otherThanDelete >>

\* delete_execute without dry_run, up to the loop: the plan, the counters,
\* the quarantine root (data_dir() may be None and create_dir_all may fail)
DeleteBegin ==
    /\ dPc = "start"
    /\ ~dReq.dry_run
    /\ dPlan' = build_delete_plan(dFs, dReq.entries, dReq.deps_only)
    /\ dItems' = << >>
    /\ dRemoved' = 0
    /\ dReclaimed' = 0
    /\ IF dReq.quarantine
       THEN \E made \in BOOLEAN :
               IF made
               THEN dQExists' = TRUE /\ dResult' = "none" /\ dPc' = "loop"
               ELSE UNCHANGED dQExists /\ dResult' = "err" /\ dPc' = "done"
       ELSE UNCHANGED dQExists /\ dResult' = "none" /\ dPc' = "loop"
    /\ UNCHANGED << dReq, dFs, dQDir, dClock, dIdx, dFs0, dQ0, otherThanDelete >>

\* the outcomes of one loop iteration share this bookkeeping
PushItem(item, status, destination, original_path) ==
    dItems' = Append(dItems,
                DeleteItemPayload(item.path, item.size_bytes, ActionName(dReq.quarantine),
                                  status, destination, original_path))

ItemSucceeds(item, destination) ==
    /\ dRemoved' = dRemoved + 1
    /\ dReclaimed' = saturating_add(dReclaimed, item.size_bytes)
    /\ PushItem(item, know_action_status(dReq.quarantine),
                IF dReq.quarantine THEN Some(destination) ELSE None,
                IF dReq.quarantine THEN Some(item.path) ELSE None)

\* the Err arm counting the item like the Ok arm
ItemFailsButCounted(item, message) ==
    /\ dRemoved' = dRemoved + 1
    /\ dReclaimed' = saturating_add(dReclaimed, item.size_bytes)
    /\ PushItem(item, ErrorStatus(message), None, None)

ItemFails(item, message) ==
    /\ UNCHANGED << dRemoved, dReclaimed >>
    /\ PushItem(item, ErrorStatus(message), None, None)

\* the missing arm counting the item like the Ok arm
DeleteItemMissingCounted ==
    /\ dPc = "loop" /\ dIdx <= Len(dPlan.items)
    /\ LET item == dPlan.items[dIdx]
       IN  /\ ~exists(dFs, item.path)
           /\ dRemoved' = dRemoved + 1
           /\ dReclaimed' = saturating_add(dReclaimed, item.size_bytes)
           /\ PushItem(item, Status("missing"), None, None)
    /\ dIdx' = dIdx + 1
    /\ UNCHANGED << dPc, dReq, dFs, dQExists, dQDir, dClock, dPlan,
                    dResult, dFs0, dQ0, otherThanDelete >>

\* the target vanished since planning
DeleteItemMissing ==
    /\ dPc = "loop" /\ dIdx <= Len(dPlan.items)
    /\ LET item == dPlan.items[dIdx]
       IN  /\ ~exists(dFs, item.path)
           /\ PushItem(item, Status("missing"), None, None)
    /\ dIdx' = dIdx + 1
    /\ UNCHANGED << dPc, dReq, dFs, dQExists, dQDir, dClock, dPlan, dRemoved, dReclaimed,
                    dResult, dFs0, dQ0, otherThanDelete >>

\* fs::rename of the target to the destination chosen in the quarantine root.
\* rename(2) replaces a destination that is no directory (the link that
\* exists() did not see) unless the source is a directory.
DeleteItemQuarantine ==
    /\ dPc = "loop" /\ dIdx <= Len(dPlan.items)
    /\ dReq.quarantine
    /\ LET item == dPlan.items[dIdx]
           target == item.path
       IN  /\ exists(dFs, target)
           /\ \E stamp \in dClock..MaxStamp, io_ok \in BOOLEAN, resolves \in BOOLEAN :
                LET destination == ChooseDestination(dQDir, stamp, file_name(target))
                    occupied == destination \in DOMAIN dQDir
                    node == dFs[target]
                    \* a link moved away keeps resolving or breaks
                    moved == IF node.kind = "link" THEN LinkNode(resolves) ELSE node
                IN  /\ dClock' = stamp
                    /\ node.kind # "link" => resolves
                    /\ IF io_ok /\ ~(occupied /\ node.kind = "dir")
                       THEN /\ dFs' = RemoveTree(dFs, target)
                            /\ dQDir' = PutDest(dQDir, destination, moved)
                            /\ ItemSucceeds(item, destination)
                       ELSE /\ resolves
                            /\ UNCHANGED << dFs, dQDir >>
                            /\ ItemFails(item, "rename")
    /\ dIdx' = dIdx + 1
    /\ UNCHANGED << dPc, dReq, dQExists, dPlan, dResult, dFs0, dQ0, otherThanDelete >>

\* fs::remove_file of a file, fs::remove_dir_all of anything else; a failed
\* remove_dir_all may have removed part of what lay below the target
DeleteItemRemove ==
    /\ dPc = "loop" /\ dIdx <= Len(dPlan.items)
    /\ ~dReq.quarantine
    /\ LET item == dPlan.items[dIdx]
           target == item.path
       IN  /\ exists(dFs, target)
           /\ \E io_ok \in BOOLEAN :
                IF io_ok
                THEN /\ dFs' = RemoveTree(dFs, target)
                     /\ ItemSucceeds(item, target)
                ELSE /\ IF is_file(dFs, target)
                        THEN UNCHANGED dFs
                        ELSE \E gone \in SUBSET Below(target) :
                                dFs' = [ q \in DOMAIN dFs |-> IF q \in gone THEN Absent ELSE dFs[q] ]
                     /\ ItemFails(item, IF is_file(dFs, target) THEN "remove_file" ELSE "remove_dir_all")
    /\ dIdx' = dIdx + 1
    /\ UNCHANGED << dPc, dReq, dQExists, dQDir, dClock, dPlan, dResult, dFs0, dQ0,
                    otherThanDelete >>

\* the loop is over: Ok(DeleteResponsePayload)
DeleteReturn ==
    /\ dPc = "loop" /\ dIdx > Len(dPlan.items)
    /\ dResult' = "ok"
    /\ dPc' = "done"
    /\ UNCHANGED << dReq, dFs, dQExists, dQDir, dClock, dPlan, dIdx, dItems, dRemoved,
                    dReclaimed, dFs0, dQ0, otherThanDelete >>

(***************************************************************************)
(* scanner.rs                                                              *)
(*                                                                         *)
(* The tree under the root is the sequence of its entries in the order     *)
(* WalkDir visits them (a directory before what it holds), each with its   *)
(* depth below the root.  A directory that cannot be read is yielded and   *)
(* followed by one error.  A file named package.json carries what its      *)
(* content amounts to: it does not parse, or it describes a recent project *)
(* under git, or an old bare one.                                          *)
(***************************************************************************)
DEFAULT_IGNORES == { "node_modules", "dist", "build", ".git", ".next", ".cache", "coverage" }
\* the build for a target_os other than windows
FULL_DISK_IGNORES_UNIX ==
    { "System", "Library", "Applications", "private", "Volumes",
      "proc", "dev", "sys", "run", "tmp" }

\* is_ignored with one list per mode
is_ignored_one_list(name, scan_all) ==
    IF scan_all THEN name \in FULL_DISK_IGNORES_UNIX ELSE name \in DEFAULT_IGNORES

is_ignored(name, scan_all) ==
    IF name \in DEFAULT_IGNORES THEN TRUE
    ELSE IF ~scan_all THEN FALSE
    ELSE name \in FULL_DISK_IGNORES_UNIX

TreeEntry(name, depth, kind, readable, manifest) ==
    [ name |-> name, depth |-> depth, kind |-> kind, readable |-> readable,
      manifest |-> manifest ]

Dir(name, depth) == TreeEntry(name, depth, "dir", TRUE, "")
UnreadableDir(name, depth) == TreeEntry(name, depth, "dir", FALSE, "")
PackageJson(depth, manifest) == TreeEntry("package.json", depth, "file", TRUE, manifest)

\* WalkDir::new(root).follow_links(false).into_iter().filter_entry(..):
\* the results from entry i on; entries deeper than `skip` lie below an
\* entry that was filtered out or could not be read (skip = -1: none)
RECURSIVE WalkFrom(_, _, _, _)
WalkFrom(tree, i, skip, scan_all) ==
    IF i > Len(tree) THEN << >>
    ELSE LET e == tree[i]
         IN  IF skip >= 0 /\ e.depth > skip THEN WalkFrom(tree, i + 1, skip, scan_all)
             ELSE IF is_ignored(e.name, scan_all) THEN WalkFrom(tree, i + 1, e.depth, scan_all)
             ELSE IF e.kind = "dir" /\ ~e.readable
                  THEN << [ ok |-> TRUE, at |-> i ], [ ok |-> FALSE, at |-> i ] >>
                       \o WalkFrom(tree, i + 1, e.depth, scan_all)
             ELSE << [ ok |-> TRUE, at |-> i ] >> \o WalkFrom(tree, i + 1, -1, scan_all)

\* a walk that ends at the first error
WalkUntilError(tree, scan_all) ==
    LET all == WalkFrom(tree, 1, -1, scan_all)
        errors == { k \in 1..Len(all) : ~all[k].ok }
    IN  IF errors = { } THEN all
        ELSE SubSeq(all, 1, CHOOSE k \in errors : \A j \in errors : k <= j)

Walk(tree, scan_all) == WalkFrom(tree, 1, -1, scan_all)

\* the index of the directory holding entry i (0 for the root entry)
ParentIndex(tree, i) ==
    IF tree[i].depth = 0 THEN 0
    ELSE CHOOSE j \in 1..(i - 1) :
            /\ tree[j].depth = tree[i].depth - 1
            /\ \A k \in (j + 1)..(i - 1) : tree[k].depth > tree[j].depth

RECURSIVE PathOf(_, _)
PathOf(tree, i) ==
    IF ParentIndex(tree, i) = 0 THEN << tree[i].name >>
    ELSE Append(PathOf(tree, ParentIndex(tree, i)), tree[i].name)

\* package_json_path.parent()
parent(path) == SubSeq(path, 1, Len(path) - 1)

SelectOk(results) == SelectSeq(results, LAMBDA r : r.ok)
SelectErr(results) == SelectSeq(results, LAMBDA r : ~r.ok)

\* the work pass: the files named package.json (their places in the tree),
\* in walk order
package_paths(tree, scan_all) ==
    LET visited == SelectOk(Walk(tree, scan_all))
        found == SelectSeq(visited,
                    LAMBDA r : tree[r.at].kind = "file" /\ tree[r.at].name = "package.json")
    IN  [ k \in 1..Len(found) |-> found[k].at ]

\* read_package_json: None when the file cannot be read or does not parse
read_package_json(tree, i) ==
    IF tree[i].manifest = "unparsable" THEN None ELSE Some(tree[i].manifest)

ProjectMeta(id, name, package_json_path, c, g, e, k, days, deps) ==
    [ id |-> id, path |-> id, name |-> name, package_json_path |-> package_json_path,
      is_cache |-> c, has_git |-> g, has_env_file |-> e, has_startup_keyword |-> k,
      last_modified_days |-> days, dependency_count |-> deps ]

\* the ProjectMeta built from a parsed manifest
ProjectOf(package_json_path, pkg) ==
    LET project_dir == parent(package_json_path)
    IN  IF pkg = "recent_git"
        THEN ProjectMeta(path_id(project_dir), << "a", "p", "p" >>, package_json_path,
                         FALSE, TRUE, FALSE, FALSE, 5, 3)
        ELSE ProjectMeta(path_id(project_dir), << "d", "e", "m", "o" >>, package_json_path,
                         FALSE, FALSE, FALSE, FALSE, 200, 0)

\* the loop over package_paths: a manifest that does not parse is skipped
RECURSIVE ProjectsOf(_, _, _)
ProjectsOf(tree, paths, k) ==
    IF k > Len(paths) THEN << >>
    ELSE LET pkg == read_package_json(tree, paths[k])
         IN  (IF IsSome(pkg) THEN << ProjectOf(PathOf(tree, paths[k]), Unwrap(pkg)) >>
              ELSE << >>)
             \o ProjectsOf(tree, paths, k + 1)

\* what scan_cache_dirs finds: nothing, or the npm cache under the home
NpmCacheMeta ==
    ProjectMeta(<< "home", ".npm" >>, << "n", "p", "m" >>, << >>,
                TRUE, FALSE, FALSE, FALSE, 200, 0)
CacheDirLists == { << >>, << NpmCacheMeta >> }

\* str's order on paths, component by component; the names used hold no
\* character that sorts below the separator
NameRank(name) ==
    IF name = ".npm" THEN 1
    ELSE IF name = "a" THEN 2
    ELSE IF name = "b" THEN 3
    ELSE IF name = "c" THEN 4
    ELSE IF name = "home" THEN 5
    ELSE IF name = "r" THEN 6
    ELSE 7

RECURSIVE PathLess(_, _)
PathLess(p, q) ==
    IF p = << >> THEN q # << >>
    ELSE IF q = << >> THEN FALSE
    ELSE IF Head(p) = Head(q) THEN PathLess(Tail(p), Tail(q))
    ELSE NameRank(Head(p)) < NameRank(Head(q))

\* projects.sort_by(|a, b| a.path.cmp(&b.path)): a stable insertion sort
RECURSIVE InsertSorted(_, _)
InsertSorted(sorted, x) ==
    IF sorted = << >> THEN << x >>
    ELSE IF PathLess(x.path, Head(sorted).path) THEN << x >> \o sorted
    ELSE << Head(sorted) >> \o InsertSorted(Tail(sorted), x)

RECURSIVE SortByPath(_)
SortByPath(projects) ==
    IF projects = << >> THEN << >>
    ELSE InsertSorted(SortByPath(SubSeq(projects, 1, Len(projects) - 1)),
                      projects[Len(projects)])

ScanResult(projects, total_entries, skipped_entries) ==
    [ projects |-> projects, total_entries |-> total_entries,
      skipped_entries |-> skipped_entries ]

\* scan_projects, given what the cache discovery finds
scan_projects(tree, scan_all, scan_caches, cache_dirs) ==
    LET results == Walk(tree, scan_all)
        total_entries == Len(SelectOk(results))
        skipped_entries == Len(SelectErr(results))
        paths == package_paths(tree, scan_all)
        projects == ProjectsOf(tree, paths, 1)
        extended == IF scan_caches THEN projects \o cache_dirs ELSE projects
    IN  ScanResult(SortByPath(extended), total_entries, skipped_entries)

(***************************************************************************)
(* cache.rs: the two cache files                                           *)
(***************************************************************************)
\* A file is absent (fs::read_to_string fails on it), garbage (it reads but
\* is no CacheFile), or valid (it holds the CacheFile written to it).
CacheFileState(kind, cache) == [ kind |-> kind, cache |-> cache ]
AbsentFile == CacheFileState("absent", DefaultCacheFile)
GarbageFile == CacheFileState("garbage", DefaultCacheFile)
ValidFile(cache) == CacheFileState("valid", cache)

\* fs::read_to_string then serde_json::from_str(..).unwrap_or_default()
ParseCache(file) == IF file.kind = "valid" THEN file.cache ELSE DefaultCacheFile

\* read_cache that passes over a file that does not parse
read_cache_skip_unparsable(primary, fallback) ==
    IF primary.kind = "valid" THEN primary.cache
    ELSE IF fallback.kind = "valid" THEN fallback.cache
    ELSE DefaultCacheFile

\* read_cache: the local file if it reads, else the application-data file
\* if it reads, else the default
read_cache(primary, fallback) ==
    IF primary.kind # "absent" THEN ParseCache(primary)
    ELSE IF fallback.kind # "absent" THEN ParseCache(fallback)
    ELSE DefaultCacheFile

\* What a write meets: fs::write succeeds, fails before it touched the file,
\* or fails after it truncated it; data_dir() is there or not;
\* create_dir_all succeeds or not.
WriteResults == { "ok", "failed", "truncated" }
WriteEnvs ==
    [ primary_write : WriteResults, data_dir : BOOLEAN, create_dir : BOOLEAN,
      fallback_write : WriteResults ]

\* fs::write(path, data)
fs_write(file, cache, outcome) ==
    IF outcome = "ok" THEN ValidFile(cache)
    ELSE IF outcome = "truncated" THEN GarbageFile
    ELSE file

WriteResult(primary, fallback, ok) == [ primary |-> primary, fallback |-> fallback, ok |-> ok ]

\* write_cache that writes the application-data file first
write_cache_fallback_first(primary, fallback, cache, env) ==
    IF env.data_dir /\ env.create_dir /\ env.fallback_write = "ok"
    THEN WriteResult(primary, ValidFile(cache), TRUE)
    ELSE WriteResult(fs_write(primary, cache, env.primary_write), fallback,
                     env.primary_write = "ok")

\* write_cache: the two files afterwards and whether it returned Ok
write_cache(primary, fallback, cache, env) ==
    IF env.primary_write = "ok" THEN WriteResult(ValidFile(cache), fallback, TRUE)
    ELSE LET p == fs_write(primary, cache, env.primary_write)
         IN  IF ~env.data_dir THEN WriteResult(p, fallback, FALSE)
             ELSE IF ~env.create_dir THEN WriteResult(p, fallback, FALSE)
             ELSE WriteResult(p, fs_write(fallback, cache, env.fallback_write),
                              env.fallback_write = "ok")

(***************************************************************************)
(* main.rs scan_start                                                      *)
(***************************************************************************)
ProjectRecord(meta, risk) == [ meta |-> meta, risk |-> risk ]

\* trees scanned: two projects; a directory that cannot be read, a manifest
\* that does not parse and a project; manifests under node_modules, under
\* dist inside a project, and under tmp; a manifest in the root; a home directory whose .npm holds a manifest
ScanTrees ==
    { << Dir("r", 0), Dir("a", 1), PackageJson(2, m), Dir("b", 1), PackageJson(2, "old_plain") >> :
        m \in { "recent_git", "old_plain" } }
    \cup
    { << Dir("r", 0), UnreadableDir("a", 1), PackageJson(2, "old_plain"),
         Dir("b", 1), PackageJson(2, "unparsable"), Dir("c", 1), PackageJson(2, m) >> :
        m \in { "recent_git", "old_plain" } }
    \cup
    { << Dir("r", 0), Dir("node_modules", 1), PackageJson(2, "recent_git"),
         Dir("a", 1), PackageJson(2, "old_plain"), Dir("dist", 2), PackageJson(3, "recent_git"),
         Dir("tmp", 1), PackageJson(2, "recent_git") >>,
      << Dir("r", 0), PackageJson(1, "old_plain") >>,
      << Dir("home", 0), Dir(".npm", 1), PackageJson(2, "old_plain") >> }

\* what the cache files may hold when a scan starts
StoredEntryMaps ==
    { DefaultEntries,
      [ id \in { << "r", "a" >> } |->
          CacheEntry("d1", RiskAssessment("Critical", 9, << "Has deploy scripts" >>, "Ai"), 0) ],
      [ id \in { << "r", "a" >>, << "r", "b" >> } |->
          IF id = << "r", "a" >>
          THEN CacheEntry("d0", RiskAssessment("Burner", 2, << >>, "Ai"), 0)
          ELSE CacheEntry("d1", RiskAssessment("Burner", 10, << "Looks unused" >>, "Ai"), 0) ] }

\* the application-data file left by an earlier scan
StoredFallback ==
    ValidFile(CacheFile(1, [ id \in { << "r", "b" >> } |->
        CacheEntry("d1", RiskAssessment("Active", 6, << >>, "Ai"), 0) ]))

\* the two cache files when a scan starts
ScanFilePairs ==
    { << AbsentFile, AbsentFile >>, << AbsentFile, StoredFallback >>,
      << GarbageFile, StoredFallback >> }
    \cup { << ValidFile(CacheFile(1, m)), AbsentFile >> : m \in StoredEntryMaps \ { DefaultEntries } }

ScanRequests ==
    [ root_exists : BOOLEAN, scan_all : BOOLEAN, ai_enabled : BOOLEAN,
      scan_caches : BOOLEAN, has_key : BOOLEAN ]

NoScan == ScanResult(<< >>, 0, 0)
NoStats == [ cache_hits |-> 0, cache_misses |-> 0, calls |-> 0 ]

ScanInit ==
    /\ sPc = "start"
    /\ sReq \in ScanRequests
    /\ sTree \in ScanTrees
    /\ \E pair \in ScanFilePairs : sPrimary = pair[1] /\ sFallback = pair[2]
    /\ sClock = 0
    /\ sScan = NoScan
    /\ sCache = DefaultCacheFile
    /\ sIdx = 1
    /\ sRecords = << >>
    /\ sStats = NoStats
    /\ sResult = "none"
    /\ sLog = << >>

ScanIdle ==
    /\ sPc = "idle"
    /\ sReq = [ root_exists |-> FALSE, scan_all |-> FALSE, ai_enabled |-> FALSE,
                scan_caches |-> FALSE, has_key |-> FALSE ]
    /\ sTree = << >>
    /\ sPrimary = AbsentFile
    /\ sFallback = AbsentFile
    /\ sClock = 0
    /\ sScan = NoScan
    /\ sCache = DefaultCacheFile
    /\ sIdx = 1
    /\ sRecords = << >>
    /\ sStats = NoStats
    /\ sResult = "none"
    /\ sLog = << >>

\* scan_start up to the first task: the root must exist, and with AI
\* enabled an API key must be there
ScanStart ==
    /\ sPc = "start"
    /\ IF ~sReq.root_exists
       THEN sResult' = "Root path not found" /\ sPc' = "done"
       ELSE IF sReq.ai_enabled /\ ~sReq.has_key
       THEN sResult' = "Gemini API key missing" /\ sPc' = "done"
       ELSE sResult' = "none" /\ sPc' = "scan"
    /\ UNCHANGED << sReq, sTree, sPrimary, sFallback, sClock, sScan, sCache, sIdx,
                    sRecords, sStats, sLog, otherThanScan >>

\* the first task: scan_projects
ScanProjects ==
    /\ sPc = "scan"
    /\ \E cache_dirs \in CacheDirLists :
            sScan' = scan_projects(sTree, sReq.scan_all, sReq.scan_caches, cache_dirs)
    /\ sPc' = "read"
    /\ UNCHANGED << sReq, sTree, sPrimary, sFallback, sClock, sCache, sIdx, sRecords,
                    sStats, sResult, sLog, otherThanScan >>

\* the second task begins: the cache is read when AI is enabled
ScanReadCache ==
    /\ sPc = "read"
    /\ sCache' = IF sReq.ai_enabled THEN read_cache(sPrimary, sFallback) ELSE DefaultCacheFile
    /\ sStats' = NoStats
    /\ sRecords' = << >>
    /\ sIdx' = 1
    /\ sPc' = "assess"
    /\ UNCHANGED << sReq, sTree, sPrimary, sFallback, sClock, sScan, sResult, sLog,
                    otherThanScan >>

\* a hash that does not follow the manifest's bytes
hash_file_stale(content) == Some("d1")
\* hash_file: None when the manifest cannot be read
hash_file(content) == IF IsSome(content) THEN Some(Sha256Hex(Unwrap(content))) ELSE None

LogEntry(id, entry_before, content, merged_cached, ai_called, ai_ok, stored, reply) ==
    [ id |-> id, entry_before |-> entry_before, content |-> content,
      merged_cached |-> merged_cached, ai_called |-> ai_called, ai_ok |-> ai_ok,
      stored |-> stored, reply |-> reply ]

EntryOf(entries, key) == IF key \in DOMAIN entries THEN Some(entries[key]) ELSE None

\* replies of the collaborator during a scan
ScanReplies ==
    { [ kind |-> f, score |-> 0, class_name |-> "Burner", reasons |-> << >> ] :
        f \in AiFailures }
    \cup
    { [ kind |-> "payload", score |-> sc, class_name |-> "Burner",
        reasons |-> << "Git history detected", "Looks unused" >> ] : sc \in { 3, 11 } }

\* one call of the map closure: the record of one project
ScanAssess ==
    /\ sPc = "assess" /\ sIdx <= Len(sScan.projects)
    /\ LET meta == sScan.projects[sIdx]
           heuristic == evaluate_heuristic(meta)
       IN  IF ~sReq.ai_enabled \/ meta.is_cache
           THEN /\ sRecords' = Append(sRecords, ProjectRecord(meta, heuristic))
                /\ sLog' = Append(sLog, LogEntry(meta.id, EntryOf(sCache.entries, meta.id), None,
                                                 FALSE, FALSE, FALSE, FALSE, ""))
                /\ UNCHANGED << sCache, sStats, sClock >>
           ELSE \* the manifest's bytes now, or None when it cannot be read
                \E content \in { None } \cup { Some(c) : c \in Contents } :
                  LET hash_value == IF meta.package_json_path = << >> THEN None
                                    ELSE hash_file(content)
                      cached == IF IsSome(hash_value)
                                THEN get_cached_assessment(sCache.entries, meta.id, Unwrap(hash_value))
                                ELSE None
                  IN  IF IsSome(cached)
                      THEN /\ sStats' = [ sStats EXCEPT !.cache_hits = @ + 1 ]
                           /\ sRecords' = Append(sRecords,
                                ProjectRecord(meta, merge_with_ai(heuristic, Unwrap(cached))))
                           /\ sLog' = Append(sLog, LogEntry(meta.id, EntryOf(sCache.entries, meta.id),
                                                content, TRUE, FALSE, FALSE, FALSE, ""))
                           /\ UNCHANGED << sCache, sClock >>
                      ELSE IF sReq.has_key
                      THEN \E reply \in ScanReplies, now \in sClock..Min(sClock + 1, MaxClock) :
                             LET res == ai_assess(reply)
                             IN  /\ sStats' = [ sStats EXCEPT !.cache_misses = @ + 1,
                                                              !.calls = @ + 1 ]
                                 /\ IF res.ok
                                    THEN /\ IF IsSome(hash_value)
                                            THEN /\ sCache' = CacheFile(sCache.version, set_cached_assessment(sCache.entries, meta.id,
                                                                Unwrap(hash_value), res.val, now))
                                                 /\ sClock' = now
                                            ELSE /\ now = sClock
                                                 /\ UNCHANGED << sCache, sClock >>
                                         /\ sRecords' = Append(sRecords,
                                              ProjectRecord(meta, merge_with_ai(heuristic, res.val)))
                                    ELSE /\ now = sClock
                                         /\ UNCHANGED << sCache, sClock >>
                                         /\ sRecords' = Append(sRecords, ProjectRecord(meta, heuristic))
                                 /\ sLog' = Append(sLog, LogEntry(meta.id, EntryOf(sCache.entries, meta.id),
                                                content, FALSE, TRUE, res.ok,
                                                res.ok /\ IsSome(hash_value), reply.kind))
                      ELSE /\ sStats' = [ sStats EXCEPT !.cache_misses = @ + 1 ]
                           /\ sRecords' = Append(sRecords, ProjectRecord(meta, heuristic))
                           /\ sLog' = Append(sLog, LogEntry(meta.id, EntryOf(sCache.entries, meta.id),
                                                content, FALSE, FALSE, FALSE, FALSE, ""))
                           /\ UNCHANGED << sCache, sClock >>
    /\ sIdx' = sIdx + 1
    /\ UNCHANGED << sPc, sReq, sTree, sPrimary, sFallback, sScan, sResult, otherThanScan >>

\* what write_cache may do to the two files
WriteOutcomes(primary, fallback, cache) ==
    { write_cache(primary, fallback, cache, env) : env \in WriteEnvs }

\* the second task ends and scan_start returns: the cache is written when AI
\* is enabled (the result of write_cache is dropped), then Ok
ScanFinish ==
    /\ sPc = "assess" /\ sIdx > Len(sScan.projects)
    /\ IF sReq.ai_enabled
       THEN \E w \in WriteOutcomes(sPrimary, sFallback, sCache) :
               sPrimary' = w.primary /\ sFallback' = w.fallback
       ELSE UNCHANGED << sPrimary, sFallback >>
    /\ sResult' = "ok"
    /\ sPc' = "done"
    /\ UNCHANGED << sReq, sTree, sClock, sScan, sCache, sIdx, sRecords, sStats, sLog,
                    otherThanScan >>

(***************************************************************************)
(* cache.rs: read_cache and write_cache called on the two files            *)
(***************************************************************************)
StoreCaches ==
    { CacheFile(1, m) : m \in StoredEntryMaps } \cup { CacheFile(2, DefaultEntries) }

StoreFiles == { AbsentFile, GarbageFile } \cup { ValidFile(c) : c \in StoreCaches }

NoWriteEnv ==
    [ primary_write |-> "ok", data_dir |-> TRUE, create_dir |-> TRUE, fallback_write |-> "ok" ]

StoreCall(op, cache, env, primary, fallback, ok) ==
    [ op |-> op, cache |-> cache, env |-> env, primary |-> primary, fallback |-> fallback,
      ok |-> ok ]

NoStoreCall == StoreCall("init", DefaultCacheFile, NoWriteEnv, AbsentFile, AbsentFile, TRUE)

StoreInit ==
    /\ stPrimary \in StoreFiles
    /\ stFallback \in StoreFiles
    /\ stCall = NoStoreCall
    /\ stCount = 0

StoreIdle ==
    /\ stPrimary = AbsentFile
    /\ stFallback = AbsentFile
    /\ stCall = NoStoreCall
    /\ stCount = 0

\* write_cache(root, cache)
StoreWrite ==
    /\ stCount < MaxStoreCalls
    /\ \E cache \in StoreCaches, env \in WriteEnvs :
          LET w == write_cache(stPrimary, stFallback, cache, env)
          IN  /\ stPrimary' = w.primary
              /\ stFallback' = w.fallback
              /\ stCall' = StoreCall("write", cache, env, stPrimary, stFallback, w.ok)
    /\ stCount' = stCount + 1
    /\ UNCHANGED otherThanStore

\* read_cache(root)
StoreRead ==
    /\ stCount < MaxStoreCalls
    /\ stCall' = StoreCall("read", read_cache(stPrimary, stFallback), NoWriteEnv,
                           stPrimary, stFallback, TRUE)
    /\ stCount' = stCount + 1
    /\ UNCHANGED << stPrimary, stFallback, otherThanStore >>

(***************************************************************************)
(* scanner.rs: scan_projects entry by entry, with its progress callback    *)
(***************************************************************************)
\* scanned_count % 200 == 0
PROGRESS_EVERY == 200

ScanProgress(found_count, current_path, scanned_count, total_count) ==
    [ found_count |-> found_count, current_path |-> current_path,
      scanned_count |-> scanned_count, total_count |-> total_count ]

ProgressRequests ==
    [ tree : ScanTrees, scan_all : BOOLEAN, scan_caches : BOOLEAN, callback : BOOLEAN ]

NoCounts == [ total_entries |-> 0, skipped_entries |-> 0, found_count |-> 0, scanned_count |-> 0 ]

ProgressInit ==
    /\ pgPc = "count"
    /\ pgReq \in ProgressRequests
    /\ pgPos = 0
    /\ pgCounts = NoCounts
    /\ pgEvents = << >>
    /\ pgResult = NoScan

ProgressIdle ==
    /\ pgPc = "idle"
    /\ pgReq = [ tree |-> << >>, scan_all |-> FALSE, scan_caches |-> FALSE, callback |-> FALSE ]
    /\ pgPos = 0
    /\ pgCounts = NoCounts
    /\ pgEvents = << >>
    /\ pgResult = NoScan

\* the entries walker.flatten() yields
WorkEntries == SelectOk(Walk(pgReq.tree, pgReq.scan_all))

\* the counting pass
ProgressCount ==
    /\ pgPc = "count"
    /\ LET results == Walk(pgReq.tree, pgReq.scan_all)
       IN  pgCounts' = [ pgCounts EXCEPT !.total_entries = Len(SelectOk(results)),
                                         !.skipped_entries = Len(SelectErr(results)) ]
    /\ pgPc' = "work"
    /\ UNCHANGED << pgReq, pgPos, pgEvents, pgResult, otherThanProgress >>

\* one turn of the work pass; `elapsed` is last_emit.elapsed() >= 120 ms
ProgressVisit ==
    /\ pgPc = "work" /\ pgPos < Len(WorkEntries)
    /\ LET at == WorkEntries[pgPos + 1].at
           entry == pgReq.tree[at]
           scanned_count == pgCounts.scanned_count + 1
           found_count == IF entry.kind = "file" /\ entry.name = "package.json"
                          THEN pgCounts.found_count + 1 ELSE pgCounts.found_count
       IN  /\ pgCounts' = [ pgCounts EXCEPT !.scanned_count = scanned_count,
                                             !.found_count = found_count ]
           /\ \E elapsed \in BOOLEAN :
                 IF pgReq.callback /\ (elapsed \/ scanned_count % PROGRESS_EVERY = 0)
                 THEN pgEvents' = Append(pgEvents,
                        ScanProgress(found_count, PathOf(pgReq.tree, at), scanned_count,
                                     Some(pgCounts.total_entries)))
                 ELSE pgEvents' = pgEvents
    /\ pgPos' = pgPos + 1
    /\ UNCHANGED << pgPc, pgReq, pgResult, otherThanProgress >>

\* the work pass ends, and with it goes an event only when the throttle allows
ProgressFinalThrottled ==
    /\ pgPc = "work" /\ pgPos = Len(WorkEntries)
    /\ \E elapsed \in BOOLEAN :
          IF pgReq.callback /\ (elapsed \/ pgCounts.scanned_count % PROGRESS_EVERY = 0)
          THEN pgEvents' = Append(pgEvents,
                 ScanProgress(pgCounts.found_count, PathOf(pgReq.tree, 1),
                              pgCounts.scanned_count, Some(pgCounts.total_entries)))
          ELSE pgEvents' = pgEvents
    /\ pgPc' = "projects"
    /\ UNCHANGED << pgReq, pgPos, pgCounts, pgResult, otherThanProgress >>

\* the work pass has ended: the callback after the loop
ProgressFinal ==
    /\ pgPc = "work" /\ pgPos = Len(WorkEntries)
    /\ IF pgReq.callback
       THEN pgEvents' = Append(pgEvents,
              ScanProgress(pgCounts.found_count, PathOf(pgReq.tree, 1),
                           pgCounts.scanned_count, Some(pgCounts.total_entries)))
       ELSE pgEvents' = pgEvents
    /\ pgPc' = "projects"
    /\ UNCHANGED << pgReq, pgPos, pgCounts, pgResult, otherThanProgress >>

\* the manifests are read, the list is sorted and scan_projects returns
ProgressReturn ==
    /\ pgPc = "projects"
    /\ \E cache_dirs \in CacheDirLists :
          pgResult' = scan_projects(pgReq.tree, pgReq.scan_all, pgReq.scan_caches, cache_dirs)
    /\ pgPc' = "done"
    /\ UNCHANGED << pgReq, pgPos, pgCounts, pgEvents, otherThanProgress >>

(***************************************************************************)
(* Specifications                                                          *)
(***************************************************************************)
(***************************************************************************)
(* main.rs scan_start, twice at once on one root: the second task of each  *)
(* call runs on the blocking pool, and nothing orders the two.  fs::write  *)
(* is File::create (open, create, truncate) followed by write_all on the   *)
(* descriptor just opened, whose offset starts at 0.                       *)
(***************************************************************************)
Scans == { 1, 2 }

\* the projects scan_projects found under the root, in path order, and the
\* bytes of each manifest
RaceProjects == << << "r", "a" >>, << "r", "b" >> >>
RaceManifest == Some(1)

\* the text of a cache file as the pieces serde_json writes
OpenToken(version) == [ t |-> "open", version |-> version ]
EntryToken(key, entry) == [ t |-> "entry", key |-> key, entry |-> entry ]
CloseToken == [ t |-> "close" ]

RECURSIVE KeysInOrder(_)
KeysInOrder(keys) ==
    IF keys = { } THEN << >>
    ELSE LET k == CHOOSE x \in keys : \A o \in keys \ { x } : PathLess(x, o)
         IN  << k >> \o KeysInOrder(keys \ { k })

\* serde_json::to_string_pretty(cache)
to_string_pretty(cache) ==
    LET keys == KeysInOrder(DOMAIN cache.entries)
    IN  << OpenToken(cache.version) >>
        \o [ i \in 1..Len(keys) |-> EntryToken(keys[i], cache.entries[keys[i]]) ]
        \o << CloseToken >>

\* serde_json::from_str::<CacheFile>: the text is one object and nothing
\* after it (a key met twice keeps its last value)
IsCacheJson(bytes) ==
    /\ Len(bytes) >= 2
    /\ bytes[1].t = "open"
    /\ bytes[Len(bytes)].t = "close"
    /\ \A i \in 2..(Len(bytes) - 1) : bytes[i].t = "entry"

from_str(bytes) ==
    LET at == 2..(Len(bytes) - 1)
        keys == { bytes[i].key : i \in at }
        last(k) == CHOOSE i \in at : bytes[i].key = k /\ \A j \in at : bytes[j].key = k => j <= i
    IN  CacheFile(bytes[1].version, [ k \in keys |-> bytes[last(k)].entry ])

\* the file as read_cache meets it
FileOf(file) ==
    IF ~IsSome(file) THEN AbsentFile
    ELSE IF IsCacheJson(Unwrap(file)) THEN ValidFile(from_str(Unwrap(file)))
    ELSE GarbageFile

\* File::create: the file exists and is empty
fs_create(file) == Some(<< >>)

\* write_all through a descriptor at offset 0: the bytes beyond the data
\* stay as they are
fs_write_all(file, data) ==
    Some(data \o SubSeq(Unwrap(file), Len(data) + 1, Len(Unwrap(file))))

RaceReplies ==
    { [ kind |-> "send", score |-> 0, class_name |-> "Burner", reasons |-> << >> ],
      [ kind |-> "payload", score |-> 3, class_name |-> "Burner", reasons |-> << >> ] }

RaceFiles ==
    { None } \cup { Some(to_string_pretty(CacheFile(1, m))) : m \in StoredEntryMaps }

RaceInit ==
    /\ rcFile \in RaceFiles
    /\ rcPc = [ p \in Scans |-> "read" ]
    /\ rcMem = [ p \in Scans |-> DefaultCacheFile ]
    /\ rcIdx = [ p \in Scans |-> 1 ]
    /\ rcClock = 0
    /\ rcOrder = << >>

RaceIdle ==
    /\ rcFile = None
    /\ rcPc = [ p \in Scans |-> "idle" ]
    /\ rcMem = [ p \in Scans |-> DefaultCacheFile ]
    /\ rcIdx = [ p \in Scans |-> 1 ]
    /\ rcClock = 0
    /\ rcOrder = << >>

\* let mut cache = read_cache(&root_for_cache)
RaceRead(p) ==
    /\ rcPc[p] = "read"
    /\ rcMem' = [ rcMem EXCEPT ![p] = read_cache(FileOf(rcFile), AbsentFile) ]
    /\ rcPc' = [ rcPc EXCEPT ![p] = "assess" ]
    /\ UNCHANGED << rcFile, rcIdx, rcClock, rcOrder, otherThanRace >>

\* one call of the map closure with AI enabled and a key configured
RaceAssess(p) ==
    /\ rcPc[p] = "assess" /\ rcIdx[p] <= Len(RaceProjects)
    /\ LET id == RaceProjects[rcIdx[p]]
           hash_value == hash_file(RaceManifest)
           cached == get_cached_assessment(rcMem[p].entries, id, Unwrap(hash_value))
       IN  IF IsSome(cached) THEN UNCHANGED << rcMem, rcClock >>
           ELSE \E reply \in RaceReplies, now \in rcClock..Min(rcClock + 1, MaxClock) :
                  LET res == ai_assess(reply)
                  IN  IF res.ok
                      THEN /\ rcMem' = [ rcMem EXCEPT ![p] =
                                 CacheFile(@.version,
                                    set_cached_assessment(@.entries, id, Unwrap(hash_value),
                                                          res.val, now)) ]
                           /\ rcClock' = now
                      ELSE /\ now = rcClock
                           /\ UNCHANGED << rcMem, rcClock >>
    /\ rcIdx' = [ rcIdx EXCEPT ![p] = @ + 1 ]
    /\ UNCHANGED << rcFile, rcPc, rcOrder, otherThanRace >>

\* write_cache, first half of fs::write(&primary, &data)
RaceOpen(p) ==
    /\ rcPc[p] = "assess" /\ rcIdx[p] > Len(RaceProjects)
    /\ rcFile' = fs_create(rcFile)
    /\ rcPc' = [ rcPc EXCEPT ![p] = "write" ]
    /\ UNCHANGED << rcMem, rcIdx, rcClock, rcOrder, otherThanRace >>

\* write_cache, second half of fs::write(&primary, &data), then Ok(())
RaceWrite(p) ==
    /\ rcPc[p] = "write"
    /\ rcFile' = fs_write_all(rcFile, to_string_pretty(rcMem[p]))
    /\ rcOrder' = Append(rcOrder, p)
    /\ rcPc' = [ rcPc EXCEPT ![p] = "done" ]
    /\ UNCHANGED << rcMem, rcIdx, rcClock, otherThanRace >>

InitRisk == RiskIdle /\ CmIdle /\ DeleteIdle /\ ScanIdle /\ StoreIdle /\ ProgressIdle /\ RaceIdle
NextRisk == RiskEvaluate \/ RiskAiAssess \/ RiskMerge \/ RiskMergeScan
SpecRisk == InitRisk /\ [][NextRisk]_vars

InitCache == RiskIdle /\ CmIdle /\ DeleteIdle /\ ScanIdle /\ StoreIdle /\ ProgressIdle /\ RaceIdle
NextCache == CacheStore \/ CacheLookup
SpecCache == InitCache /\ [][NextCache]_vars

InitDelete == RiskIdle /\ CmIdle /\ DeleteInit /\ ScanIdle /\ StoreIdle /\ ProgressIdle /\ RaceIdle
NextDelete ==
    DeleteDryRun \/ DeleteBegin \/ DeleteItemMissing \/ DeleteItemQuarantine \/ DeleteItemRemove \/ DeleteReturn
SpecDelete == InitDelete /\ [][NextDelete]_vars

InitScan == RiskIdle /\ CmIdle /\ DeleteIdle /\ ScanInit /\ StoreIdle /\ ProgressIdle /\ RaceIdle
NextScan == ScanStart \/ ScanProjects \/ ScanReadCache \/ ScanAssess \/ ScanFinish
SpecScan == InitScan /\ [][NextScan]_vars

InitStore == RiskIdle /\ CmIdle /\ DeleteIdle /\ ScanIdle /\ StoreInit /\ ProgressIdle /\ RaceIdle
NextStore == StoreWrite \/ StoreRead
SpecStore == InitStore /\ [][NextStore]_vars

\* the two passes are sequential loops over a finite walk: they keep going
InitProgress == RiskIdle /\ CmIdle /\ DeleteIdle /\ ScanIdle /\ StoreIdle /\ ProgressInit /\ RaceIdle
NextProgress == ProgressCount \/ ProgressVisit \/ ProgressFinal \/ ProgressReturn
SpecProgress ==
    InitProgress /\ [][NextProgress]_vars
        /\ WF_vars(ProgressCount \/ ProgressVisit \/ ProgressFinal)

InitRace == RiskIdle /\ CmIdle /\ DeleteIdle /\ ScanIdle /\ StoreIdle /\ ProgressIdle /\ RaceInit
NextRace ==
    \E p \in Scans : RaceRead(p) \/ RaceAssess(p) \/ RaceOpen(p) \/ RaceWrite(p)
SpecRace == InitRace /\ [][NextRace]_vars

(***************************************************************************)
(* Properties                                                              *)
(***************************************************************************)
ClassMatchesScore(a) ==
    /\ (a.class_name = "Critical") <=> (a.score >= 8)
    /\ (a.class_name = "Active") <=> (a.score >= 5 /\ a.score < 8)
    /\ (a.class_name = "Burner") <=> (a.score < 5)

\* C1: for every ProjectMeta, whatever its flags, age, dependency count and
\* name, evaluate_heuristic returns a score in 0..10.
C1_HeuristicScoreInRange ==
    riskOp = "evaluate" => Unwrap(riskOut).score \in 0..10

\* both ends of the clamp act: four positive signals sum to 12, a cache
\* entry with a burner name sums to -7
C1_Witness ==
    /\ riskOp = "evaluate"
    /\ riskMeta.has_git /\ riskMeta.has_env_file /\ riskMeta.has_startup_keyword
    /\ riskMeta.last_modified_days <= 30 /\ ~riskMeta.is_cache
    /\ ~is_burner_name(riskMeta.name)
    /\ Unwrap(riskOut).score = 10

\* C2: every assessment produced by evaluate_heuristic, by ai_assess, by
\* merge_risk on an AI assessment, and by the merges scan_start makes (of a
\* heuristic with nothing, with an AI result or with a cached assessment)
\* has the class its score alone determines: Critical iff score >= 8,
\* Active iff 5 <= score < 8, Burner otherwise.
C2_ClassDeterminedByScore ==
    ( /\ IsSome(riskOut)
      /\ \/ riskOp \in { "evaluate", "ai_assess", "merge_scan" }
         \/ riskOp = "merge" /\ IsSome(riskAi) )
    => ClassMatchesScore(Unwrap(riskOut))

\* a cached assessment whose stored class contradicts its score is merged,
\* and the class of the result follows the averaged score
C2_Witness ==
    /\ riskOp = "merge_scan"
    /\ IsSome(riskAi)
    /\ ~ClassMatchesScore(Unwrap(riskAi))
    /\ riskH.score = 6
    /\ Unwrap(riskAi).score = 10
    /\ Unwrap(riskOut).class_name = "Critical"

\* C3: for assessments with scores in 0..10, merge_risk(h, Some(ai)).score is
\* floor((h.score + ai.score) / 2), and merge_risk(h, None) equals h in
\* score, class, reasons and source.
C3_MergeScoreIsFloorOfAverage ==
    riskOp = "merge" =>
        LET out == Unwrap(riskOut)
        IN  IF IsSome(riskAi)
            THEN LET sum == riskH.score + Unwrap(riskAi).score
                 IN  /\ 2 * out.score <= sum
                     /\ sum <= 2 * out.score + 1
            ELSE /\ out.score = riskH.score
                 /\ out.class_name = riskH.class_name
                 /\ out.reasons = riskH.reasons
                 /\ out.source = riskH.source

\* an odd sum at a class boundary: 7 and 8 average to 7 (Active), not 8
C3_Witness ==
    /\ riskOp = "merge"
    /\ IsSome(riskAi)
    /\ riskH.score = 7
    /\ Unwrap(riskAi).score = 8
    /\ Unwrap(riskOut).score = 7
    /\ Unwrap(riskOut).class_name = "Active"

\* what the stores made so far say a lookup must return
ExpectedLookup(last, key, hash) ==
    IF IsSome(last[key]) /\ Unwrap(last[key]).hash = hash
    THEN Some(Unwrap(last[key]).assessment)
    ELSE None

C4_LookupFollowsLastStore ==
    \A key \in ProjectIds, hash \in Digests :
        get_cached_assessment(cmEntries, key, hash) = ExpectedLookup(cmLast, key, hash)

C4_StoreLeavesOtherIdsAlone ==
    cmOp'.op = "store" =>
        \A key \in ProjectIds \ { cmOp'.key }, hash \in Digests :
            get_cached_assessment(cmEntries', key, hash)
                = get_cached_assessment(cmEntries, key, hash)

\* C4: after any sequence of stores, lookup(cache, id, hash) returns the
\* assessment of the most recent store for id exactly when that store's hash
\* is hash, and none when id was never stored or was last stored under
\* another hash; a store for one id changes no other id's lookups.
C4_CacheStoreLookup ==
    [](C4_LookupFollowsLastStore) /\ [][C4_StoreLeavesOtherIdsAlone]_vars

\* an id stored twice under different hashes is looked up under the first
\* hash and misses, while the other id still holds its entry
C4_Witness ==
    /\ cmOp.op = "lookup"
    /\ cmOp.key = << "r", "a" >>
    /\ cmOp.hash = "d1"
    /\ cmOp.result = None
    /\ << "r", "a" >> \in DOMAIN cmEntries
    /\ cmEntries[<< "r", "a" >>].hash = "d2"
    /\ cmEntries[<< "r", "a" >>].updated_at > 0
    /\ << "r", "b" >> \in DOMAIN cmEntries

PlanPaths == { dPlan.items[i].path : i \in 1..Len(dPlan.items) }
ReqEntries == { dReq.entries[i] : i \in 1..Len(dReq.entries) }
DepCandidates(entry) == { join(entry.path, "node_modules"), join(entry.path, ".cache") }

\* C6: with depsOnly, the plan holds, for the non-cache entries, exactly
\* those of <entry>/node_modules and <entry>/.cache that existed when the
\* plan was built (each once), and an entry's own root only where a cache
\* entry names the same path; a non-cache entry with neither subpath adds
\* nothing.
C6_DepsOnlyTargets ==
    (dPc # "start" /\ dReq.deps_only) =>
        /\ PlanPaths =
              { c \in UNION { DepCandidates(e) : e \in { x \in ReqEntries : ~x.is_cache } } :
                    exists(dFs0, c) }
              \cup { e.path : e \in { x \in ReqEntries : x.is_cache /\ exists(dFs0, x.path) } }
        /\ \A e \in ReqEntries :
              (~e.is_cache /\ e.path \in PlanPaths)
                  => \E c \in ReqEntries : c.is_cache /\ c.path = e.path
        /\ \A i, j \in 1..Len(dPlan.items) :
              dPlan.items[i].path = dPlan.items[j].path => i = j

\* /w/a with node_modules and without .cache: the plan is /w/a/node_modules
C6_Witness ==
    /\ dPc # "start"
    /\ dReq.deps_only
    /\ dReq.entries = << DeleteEntry(ProjA, FALSE) >>
    /\ exists(dFs0, join(ProjA, "node_modules"))
    /\ ~exists(dFs0, join(ProjA, ".cache"))
    /\ Len(dPlan.items) = 1
    /\ dPlan.items[1].path = join(ProjA, "node_modules")

\* C7: a dry run leaves the filesystem and the quarantine root as they were
\* (the root is not even created), reports removed_count 0 and
\* reclaimed_bytes = the plan's total, and returns one dry-run outcome per
\* plan item, whatever quarantine and depsOnly are.
C7_DryRunChangesNothing ==
    (dPc = "done" /\ dReq.dry_run) =>
        /\ dResult = "ok"
        /\ dFs = dFs0
        /\ dQExists = dQ0.exists
        /\ dQDir = dQ0.dir
        /\ dRemoved = 0
        /\ dReclaimed = dPlan.total_bytes
        /\ Len(dItems) = Len(dPlan.items)
        /\ \A i \in 1..Len(dItems) :
              /\ dItems[i].status = Status("dry-run")
              /\ dItems[i].path = dPlan.items[i].path
              /\ dItems[i].size_bytes = dPlan.items[i].size_bytes
              /\ dItems[i].destination = None

\* a quarantine dry run over two targets while no quarantine root exists
C7_Witness ==
    /\ dPc = "done"
    /\ dReq.dry_run /\ dReq.quarantine /\ dReq.deps_only
    /\ ~dQ0.exists /\ ~dQExists
    /\ Len(dItems) = 2
    /\ dReclaimed > 0

MovedItems == { i \in 1..Len(dItems) : dItems[i].status = Status("moved") }

\* C8: the destination chosen in quarantine mode is free when chosen, so no
\* two moved items share a destination and nothing that lay in the
\* quarantine root is overwritten.
C8_DestinationsNeverShared ==
    /\ \A i, j \in MovedItems : dItems[i].destination = dItems[j].destination => i = j
    /\ \A d \in DOMAIN dQ0.dir : d \in DOMAIN dQDir /\ dQDir[d] = dQ0.dir[d]
    /\ Cardinality(DOMAIN dQDir) = Cardinality(DOMAIN dQ0.dir) + Cardinality(MovedItems)

CountedItems == { i \in 1..Len(dItems) : dItems[i].status \in { Status("moved"), Status("deleted") } }
ErrorItems == { i \in 1..Len(dItems) : dItems[i].status[1] = "error: " }

RECURSIVE SumCounted(_, _)
SumCounted(items, total) ==
    IF items = << >> THEN total
    ELSE SumCounted(Tail(items),
            IF Head(items).status \in { Status("moved"), Status("deleted") }
            THEN saturating_add(total, Head(items).size_bytes)
            ELSE total)

C9_ErrorsAreLocal ==
    ~dReq.dry_run =>
        \* outcomes follow the plan, one per item processed, in plan order
        /\ dPc = "loop" => Len(dItems) = dIdx - 1
        /\ Len(dItems) <= Len(dPlan.items)
        /\ \A i \in 1..Len(dItems) : dItems[i].path = dPlan.items[i].path
        \* an item that failed is not counted
        /\ dRemoved = Cardinality(CountedItems)
        /\ dReclaimed = SumCounted(dItems, 0)
        /\ \A i \in ErrorItems : dItems[i].destination = None
        \* the loop never stops at a failure
        /\ (dPc = "loop" /\ dIdx <= Len(dPlan.items))
              => ENABLED (DeleteItemMissing \/ DeleteItemQuarantine \/ DeleteItemRemove)
        \* and the operation returns success once a plan item was reached
        /\ (dPc = "done" /\ dResult = "ok") => Len(dItems) = Len(dPlan.items)
        /\ (dPc = "done" /\ dResult = "err") => (dItems = << >> /\ dFs = dFs0)

C9_NothingRolledBack ==
    /\ \A p \in Paths : dFs[p] = Absent => dFs'[p] = Absent
    /\ \A d \in DOMAIN dQDir : d \in DOMAIN dQDir'
    /\ Len(dItems') >= Len(dItems)
    /\ SubSeq(dItems', 1, Len(dItems)) = dItems

\* C9: in a run that is no dry run, a plan item whose delete or move fails
\* gets an error status and is not counted; the items after it are still
\* processed, nothing done before is undone, and the operation returns
\* success with one outcome per plan item in plan order.
C9_PartialFailure == [](C9_ErrorsAreLocal) /\ [][C9_NothingRolledBack]_vars

\* the first of two items failed, the second was removed, and the
\* operation returned success
C9_Witness ==
    /\ dPc = "done" /\ dResult = "ok"
    /\ ~dReq.dry_run
    /\ Len(dItems) = 2
    /\ dItems[1].status[1] = "error: "
    /\ dItems[2].status = Status("deleted")
    /\ dRemoved = 1
    /\ dReclaimed = dItems[2].size_bytes

(***************************************************************************)
(* C5: during a scan with AI enabled, for each project that is not a cache  *)
(* directory, a cached assessment is merged into the record only when the  *)
(* entry stored under the project's id carries the hash of the manifest's  *)
(* current bytes; on every miss (no entry, another hash, no hash) the AI   *)
(* collaborator is called, and it is never called for a project that had a *)
(* hit.                                                                    *)
(***************************************************************************)
ValidHit(l) ==
    /\ IsSome(l.entry_before)
    /\ IsSome(l.content)
    /\ Unwrap(l.entry_before).hash = Sha256Hex(Unwrap(l.content))

C5_CachedOnlyOnHashMatch ==
    sReq.ai_enabled =>
        \A i \in 1..Len(sLog) :
            LET l == sLog[i]
                meta == sScan.projects[i]
            IN  ~meta.is_cache =>
                  /\ l.merged_cached => ValidHit(l)
                  /\ ValidHit(l) => l.merged_cached /\ ~l.ai_called
                  /\ ~ValidHit(l) => l.ai_called
                  /\ l.merged_cached =>
                        sRecords[i].risk =
                            merge_risk(evaluate_heuristic(meta),
                                       Some(Unwrap(l.entry_before).assessment))

\* one scan with a hit for one project and, for another, an entry whose
\* hash differs from the manifest's and a call of the collaborator
C5_Witness ==
    /\ sReq.ai_enabled
    /\ \E i, j \in 1..Len(sLog) :
          /\ sLog[i].merged_cached /\ ~sLog[i].ai_called
          /\ IsSome(sLog[j].entry_before) /\ IsSome(sLog[j].content)
          /\ Unwrap(sLog[j].entry_before).hash # Sha256Hex(Unwrap(sLog[j].content))
          /\ sLog[j].ai_called

(***************************************************************************)
(* C10: what makes a scan fail as a whole, and what it tolerates           *)
(***************************************************************************)
RECURSIVE Ancestors(_, _)
Ancestors(tree, i) ==
    IF ParentIndex(tree, i) = 0 THEN { }
    ELSE { ParentIndex(tree, i) } \cup Ancestors(tree, ParentIndex(tree, i))

\* the entries the traversal is due to visit: not ignored, below no ignored
\* directory and below no directory that cannot be read
Visitable(tree, scan_all) ==
    { i \in 1..Len(tree) :
        /\ ~is_ignored(tree[i].name, scan_all)
        /\ \A j \in Ancestors(tree, i) :
              ~is_ignored(tree[j].name, scan_all) /\ tree[j].readable }

VisitErrors(tree, scan_all) ==
    { i \in Visitable(tree, scan_all) : tree[i].kind = "dir" /\ ~tree[i].readable }

ParsableManifests(tree, scan_all) ==
    { i \in Visitable(tree, scan_all) :
        tree[i].name = "package.json" /\ tree[i].manifest # "unparsable" }

ScanReturned == sPc = "done"
ScanFailed == ScanReturned /\ sResult # "ok"

\* the result a scan returns: every visit error is counted and the traversal
\* went on past it
ScanTolerates ==
    /\ sScan.skipped_entries = Cardinality(VisitErrors(sTree, sReq.scan_all))
    /\ sScan.total_entries = Cardinality(Visitable(sTree, sReq.scan_all))
    /\ \A i \in ParsableManifests(sTree, sReq.scan_all) :
          \E k \in 1..Len(sRecords) :
              sRecords[k].meta.id = path_id(parent(PathOf(sTree, i)))
    /\ Len(sRecords) = Len(sScan.projects)

\* C10 as stated: the scan fails as a whole only when the root path does
\* not exist, and otherwise returns a result with each visit error counted
\* in skippedEntries
C10_FailsOnlyWhenRootMissing ==
    ScanReturned =>
        /\ ScanFailed => ~sReq.root_exists
        /\ ~ScanFailed => ScanTolerates

\* C10, amended: the scan fails as a whole exactly when the root path does
\* not exist or AI is enabled and no API key is configured; unreadable
\* entries, unparsable manifests, AI errors and cache read or write errors
\* leave it returning a result, each visit error counted in skippedEntries
\* and the traversal going on
C10_FailsOnlyOnRootOrMissingKey ==
    ScanReturned =>
        /\ ScanFailed <=> (~sReq.root_exists \/ (sReq.ai_enabled /\ ~sReq.has_key))
        /\ ~ScanFailed => ScanTolerates

\* a scan that returned a result after an unreadable directory, a manifest
\* that does not parse, a cache file that does not parse, a failed call of
\* the collaborator and a cache that could not be written
C10_Witness ==
    /\ ScanReturned /\ sResult = "ok"
    /\ sScan.skipped_entries > 0
    /\ \E i \in Visitable(sTree, sReq.scan_all) : sTree[i].manifest = "unparsable"
    /\ \E i \in 1..Len(sLog) : sLog[i].ai_called /\ ~sLog[i].ai_ok
    /\ sPrimary = GarbageFile
    /\ sFallback # ValidFile(sCache)
    /\ Len(sRecords) > 0

(***************************************************************************)
(* C11: when the AI collaborator fails for a project (the request is not   *)
(* sent, the response does not parse, the status is no success, the text   *)
(* is missing, the payload does not parse), the scan is not aborted: the   *)
(* project's record carries exactly the heuristic assessment, no cache     *)
(* entry is stored for it, and the remaining projects are still assessed.  *)
(***************************************************************************)
AiFailedAt(i) == sLog[i].ai_called /\ sLog[i].reply \in AiFailures

C11_FailedProjectsKeepHeuristic ==
    /\ Len(sLog) = Len(sRecords)
    /\ \A i \in 1..Len(sLog) :
          AiFailedAt(i) =>
            /\ sRecords[i].meta = sScan.projects[i]
            /\ sRecords[i].risk = evaluate_heuristic(sScan.projects[i])
            /\ sRecords[i].risk.source = "Heuristic"
            /\ ~sLog[i].stored
            /\ sResult \in { "none", "ok" }
    \* the projects after a failure get their turn
    /\ (sPc = "assess" /\ sIdx <= Len(sScan.projects)) => ENABLED ScanAssess
    /\ (sPc = "done" /\ sResult = "ok") => Len(sRecords) = Len(sScan.projects)

\* the step of a failed call leaves the cache as it was
C11_FailureStoresNothing ==
    (Len(sLog') = Len(sLog) + 1 /\ sLog'[Len(sLog')].ai_called
        /\ sLog'[Len(sLog')].reply \in AiFailures)
    => sCache' = sCache

C11_AiFailureFallsBack ==
    [](C11_FailedProjectsKeepHeuristic) /\ [][C11_FailureStoresNothing]_vars

\* a scan that returned after the collaborator answered the first project
\* with a status that is no success and the second with a payload
C11_Witness ==
    /\ sPc = "done" /\ sResult = "ok"
    /\ Len(sLog) = 2
    /\ sLog[1].ai_called /\ sLog[1].reply = "status"
    /\ sLog[1].id \notin DOMAIN sCache.entries
    /\ sLog[2].ai_called /\ sLog[2].ai_ok /\ sLog[2].stored
    /\ sRecords[2].risk.source = "Combined"

(***************************************************************************)
(* C12: write_cache tries the file under the root first and writes the     *)
(* application-data file only if that write fails; it returns an error     *)
(* only when neither could be written, and on success the cache was        *)
(* written to exactly one of the two.                                      *)
(***************************************************************************)
WroteCache == stCall.op = "write"
FallbackWritable ==
    stCall.env.data_dir /\ stCall.env.create_dir /\ stCall.env.fallback_write = "ok"

C12_WriteLocalThenFallback ==
    WroteCache =>
        /\ stCall.env.primary_write = "ok" =>
              /\ stCall.ok
              /\ stPrimary = ValidFile(stCall.cache)
              /\ stFallback = stCall.fallback
        /\ stCall.ok <=> (stCall.env.primary_write = "ok" \/ FallbackWritable)
        /\ (stCall.ok /\ stCall.env.primary_write # "ok") =>
              /\ stFallback = ValidFile(stCall.cache)
              /\ stPrimary \in { stCall.primary, GarbageFile }
              /\ stPrimary # ValidFile(stCall.cache) \/ stCall.primary = ValidFile(stCall.cache)
        /\ ~stCall.ok =>
              /\ stPrimary \in { stCall.primary, GarbageFile }
              /\ stFallback \in { stCall.fallback, GarbageFile }

\* the local write failed and the cache went to the application-data file
C12_Witness ==
    /\ WroteCache /\ stCall.ok
    /\ stCall.env.primary_write = "failed"
    /\ stCall.primary.kind = "valid" /\ stPrimary = stCall.primary
    /\ stCall.fallback # ValidFile(stCall.cache)
    /\ stFallback = ValidFile(stCall.cache)
    /\ stCall.cache.entries # DefaultEntries

(***************************************************************************)
(* C13: read_cache never fails: it takes the file under the root first and *)
(* the application-data file after it; a file that is missing or does not  *)
(* parse gives the empty cache (version 1, no entries), no error.          *)
(***************************************************************************)
ReadCache == stCall.op = "read"

C13_ReadNeverFails ==
    ReadCache =>
        /\ stCall.ok
        /\ stCall.cache.version \in 0..U8_MAX
        /\ stPrimary = stCall.primary /\ stFallback = stCall.fallback
        /\ stPrimary.kind = "valid" => stCall.cache = stPrimary.cache
        /\ stPrimary.kind = "garbage" => stCall.cache = CacheFile(1, DefaultEntries)
        /\ (stPrimary.kind = "absent" /\ stFallback.kind = "valid") =>
              stCall.cache = stFallback.cache
        /\ (stPrimary.kind = "absent" /\ stFallback.kind # "valid") =>
              stCall.cache = CacheFile(1, DefaultEntries)

\* the local file does not parse while the application-data file holds
\* entries: the result is the empty cache
C13_Witness ==
    /\ ReadCache
    /\ stPrimary.kind = "garbage"
    /\ stFallback.kind = "valid" /\ stFallback.cache.entries # DefaultEntries
    /\ stCall.cache.version = 1 /\ DOMAIN stCall.cache.entries = { }

(***************************************************************************)
(* C14: with a progress callback supplied, every scan emits a last         *)
(* progress event after the work pass has ended, whatever the throttle     *)
(* did; it carries the final found_count and scanned_count and             *)
(* total_count = total_entries; no progress event follows it; and          *)
(* scanned_count and found_count never decrease from one event to the next.*)
(***************************************************************************)
WorkPassEnded == pgPc \in { "projects", "done" }

VisitedManifests(tree, scan_all) ==
    { i \in Visitable(tree, scan_all) :
        tree[i].kind = "file" /\ tree[i].name = "package.json" }

LastEventIsFinal ==
    /\ Len(pgEvents) > 0
    /\ LET last == pgEvents[Len(pgEvents)]
       IN  /\ last.found_count = Cardinality(VisitedManifests(pgReq.tree, pgReq.scan_all))
           /\ last.scanned_count = Cardinality(Visitable(pgReq.tree, pgReq.scan_all))
           /\ last.total_count = Some(pgCounts.total_entries)
           /\ last.found_count = pgCounts.found_count
           /\ last.scanned_count = pgCounts.scanned_count

C14_EventsInOrder ==
    /\ \A i, j \in 1..Len(pgEvents) :
          i < j => /\ pgEvents[i].scanned_count <= pgEvents[j].scanned_count
                   /\ pgEvents[i].found_count <= pgEvents[j].found_count
    /\ (WorkPassEnded /\ pgReq.callback) => LastEventIsFinal
    /\ ~pgReq.callback => pgEvents = << >>

C14_NoEventAfterLast == WorkPassEnded => pgEvents' = pgEvents

C14_FinalProgressEvent ==
    /\ [](C14_EventsInOrder)
    /\ [][C14_NoEventAfterLast]_vars
    /\ ((pgPc = "count" /\ pgReq.callback) ~> (WorkPassEnded /\ LastEventIsFinal))

\* a scan that returned with the callback supplied, where the throttle let
\* one event through during the pass and held others back
C14_Witness ==
    /\ pgPc = "done" /\ pgReq.callback
    /\ Len(pgEvents) = 2
    /\ pgCounts.scanned_count >= 3
    /\ pgEvents[1].scanned_count < pgEvents[2].scanned_count
    /\ pgEvents[1].found_count < pgEvents[2].found_count
    /\ LastEventIsFinal

(***************************************************************************)
(* C15: in every scan result set no two entries have the same identity,    *)
(* across manifest-derived projects and cache-derived entries together,    *)
(* for every root and every setting of scan_all and scan_caches.           *)
(***************************************************************************)
C15_IdentitiesUnique ==
    /\ \A i, j \in 1..Len(sScan.projects) :
          i # j => sScan.projects[i].id # sScan.projects[j].id
    /\ \A i, j \in 1..Len(sRecords) :
          i # j => sRecords[i].meta.id # sRecords[j].meta.id

(***************************************************************************)
(* C16: in both passes an entry named node_modules, dist, build, .git,     *)
(* .next, .cache or coverage is skipped with everything below it, at any   *)
(* depth and for either value of scan_all: none of them is counted in      *)
(* total_entries or scanned_count and no package.json below it gives a     *)
(* project.                                                                *)
(***************************************************************************)
AlwaysIgnored(name) ==
    \/ name = "node_modules" \/ name = "dist" \/ name = "build" \/ name = ".git"
    \/ name = ".next" \/ name = ".cache" \/ name = "coverage"

\* the entry or a directory above it carries an ignored name
UnderIgnored(tree, i) ==
    \E j \in { i } \cup Ancestors(tree, i) : AlwaysIgnored(tree[j].name)

NotUnderIgnored(tree) == { i \in 1..Len(tree) : ~UnderIgnored(tree, i) }

HasIgnoredPart(path) == \E k \in 1..Len(path) : AlwaysIgnored(path[k])

C16_IgnoredSubtreesSkipped ==
    LET tree == pgReq.tree
        results == Walk(tree, pgReq.scan_all)
    IN  /\ \A k \in 1..Len(results) : ~UnderIgnored(tree, results[k].at)
        /\ pgPc # "count" =>
              pgCounts.total_entries <= Cardinality(NotUnderIgnored(tree))
        /\ pgCounts.scanned_count <= Cardinality(NotUnderIgnored(tree))
        /\ pgPos > 0 => ~UnderIgnored(tree, WorkEntries[pgPos].at)
        /\ (pgPc \in { "projects", "done" } /\ ~pgReq.scan_all) =>
              /\ pgCounts.total_entries
                    = Cardinality({ i \in NotUnderIgnored(tree) :
                                      \A j \in Ancestors(tree, i) : tree[j].readable })
              /\ pgCounts.scanned_count = pgCounts.total_entries
        /\ \A k \in 1..Len(pgEvents) : ~HasIgnoredPart(pgEvents[k].current_path)
        /\ \A k \in 1..Len(pgResult.projects) :
              ~pgResult.projects[k].is_cache =>
                  ~HasIgnoredPart(pgResult.projects[k].package_json_path)

\* a full-disk scan of a tree with manifests under node_modules and under
\* dist two levels down, which returned the one project outside them
C16_Witness ==
    /\ pgPc = "done" /\ pgReq.scan_all
    /\ \E i, j \in 1..Len(pgReq.tree) :
          /\ pgReq.tree[i].name = "node_modules" /\ pgReq.tree[i].depth = 1
          /\ pgReq.tree[j].name = "dist" /\ pgReq.tree[j].depth = 2
          /\ pgReq.tree[j + 1].name = "package.json"
    /\ pgCounts.total_entries = 3 /\ pgCounts.scanned_count = 3
    /\ Len(SelectSeq(pgResult.projects, LAMBDA m : ~m.is_cache)) = 1

(***************************************************************************)
(* C17: evaluate_heuristic's score is clamp(s, 0, 10) for s the sum of the *)
(* triggered weights (is_cache -4, has_git +4, has_env_file +3,            *)
(* has_startup_keyword +3, days <= 30 +2, dependencies >= 40 +1, burner    *)
(* name -2, days >= 180 -1), clamped once at the end; its reasons are      *)
(* those of the triggered signals in that order; its source is Heuristic.  *)
(***************************************************************************)
SignalRow(triggered, weight, reason) ==
    [ triggered |-> triggered, weight |-> weight, reason |-> reason ]

SignalTable(m) ==
    << SignalRow(m.is_cache, -4, "System cache directory"),
       SignalRow(m.has_git, 4, "Git history detected"),
       SignalRow(m.has_env_file, 3, "Environment file present"),
       SignalRow(m.has_startup_keyword, 3, "Startup keywords in package.json"),
       SignalRow(m.last_modified_days <= 30, 2, "Modified within 30 days"),
       SignalRow(m.dependency_count >= 40, 1, "High dependency count"),
       SignalRow(is_burner_name(m.name), -2, "Name matches tutorial/test patterns"),
       SignalRow(m.last_modified_days >= 180, -1, "Inactive for 6+ months") >>

RECURSIVE SumWeights(_)
SumWeights(rows) ==
    IF rows = << >> THEN 0
    ELSE (IF Head(rows).triggered THEN Head(rows).weight ELSE 0) + SumWeights(Tail(rows))

TriggeredReasons(rows) ==
    LET hit == SelectSeq(rows, LAMBDA r : r.triggered)
    IN  [ k \in 1..Len(hit) |-> hit[k].reason ]

ClampOnce(sum) == IF sum < 0 THEN 0 ELSE IF sum > 10 THEN 10 ELSE sum

C17_HeuristicIsClampedSum ==
    riskOp = "evaluate" =>
        LET out == Unwrap(riskOut)
            rows == SignalTable(riskMeta)
        IN  /\ out.score = ClampOnce(SumWeights(rows))
            /\ out.reasons = TriggeredReasons(rows)
            /\ out.source = "Heuristic"

\* a cache directory under git: -4 + 4 = 0, where a running clamp gives 4
C17_Witness ==
    /\ riskOp = "evaluate"
    /\ riskMeta.is_cache /\ riskMeta.has_git
    /\ ~riskMeta.has_env_file /\ ~riskMeta.has_startup_keyword
    /\ riskMeta.last_modified_days = 31 /\ riskMeta.dependency_count = 0
    /\ ~is_burner_name(riskMeta.name)
    /\ Unwrap(riskOut).score = 0
    /\ Unwrap(riskOut).reasons = << "System cache directory", "Git history detected" >>

(***************************************************************************)
(* C18: for merge_risk(h, Some(ai)) the reasons are h's reasons in their   *)
(* order, followed by each AI reason not already in the list (exact        *)
(* equality), in the order the AI list first has them; the source is       *)
(* Combined and the class is recomputed from the averaged score.           *)
(***************************************************************************)
FirstIndex(seq, x) == CHOOSE i \in 1..Len(seq) : seq[i] = x /\ \A j \in 1..(i - 1) : seq[j] # x

C18_MergedReasons ==
    (riskOp = "merge" /\ IsSome(riskAi)) =>
        LET out == Unwrap(riskOut)
            h == riskH.reasons
            ai == Unwrap(riskAi).reasons
            n == Len(h)
            added == SubSeq(out.reasons, n + 1, Len(out.reasons))
        IN  /\ Len(out.reasons) >= n
            /\ SubSeq(out.reasons, 1, n) = h
            /\ \A k \in 1..Len(added) :
                  SeqContains(ai, added[k]) /\ ~SeqContains(h, added[k])
            /\ \A k \in 1..Len(ai) : SeqContains(out.reasons, ai[k])
            /\ \A i, j \in 1..Len(added) :
                  i < j => FirstIndex(ai, added[i]) < FirstIndex(ai, added[j])
            /\ out.source = "Combined"
            /\ ClassMatchesScore(out)
            /\ out.class_name = classify((riskH.score + Unwrap(riskAi).score) \div 2)

\* an AI list that repeats one of h's reasons and brings a new one
C18_Witness ==
    /\ riskOp = "merge" /\ IsSome(riskAi)
    /\ riskH.reasons = << "Git history detected", "Environment file present" >>
    /\ Unwrap(riskAi).reasons = << "Git history detected", "Looks unused" >>
    /\ Unwrap(riskOut).reasons
         = << "Git history detected", "Environment file present", "Looks unused" >>
    /\ riskH.class_name # Unwrap(riskOut).class_name

(***************************************************************************)
(* C19: whatever the delete entries and depsOnly, the plan of               *)
(* build_delete_plan has no two items with the same path, lists its items  *)
(* in the order in which the entries first produced their targets, holds   *)
(* only paths that existed when the plan was made (and every produced      *)
(* target that existed), and its total_bytes is the sum of the item sizes  *)
(* capped at the largest u64.                                              *)
(***************************************************************************)
\* the candidates the entries produce, in order, before any filtering
RECURSIVE Produced(_, _)
Produced(entries, deps_only) ==
    IF entries = << >> THEN << >>
    ELSE (IF deps_only /\ ~Head(entries).is_cache
          THEN << join(Head(entries).path, "node_modules"),
                  join(Head(entries).path, ".cache") >>
          ELSE << Head(entries).path >>)
         \o Produced(Tail(entries), deps_only)

RECURSIVE PlainSum(_)
PlainSum(items) ==
    IF items = << >> THEN 0 ELSE Head(items).size_bytes + PlainSum(Tail(items))

C19_PlanDedupOrderTotal ==
    dPc \notin { "start", "idle" } =>
        LET produced == Produced(dReq.entries, dReq.deps_only)
            items == dPlan.items
        IN  /\ \A i, j \in 1..Len(items) : items[i].path = items[j].path => i = j
            /\ \A i \in 1..Len(items) :
                  /\ SeqContains(produced, items[i].path)
                  /\ exists(dFs0, items[i].path)
                  /\ items[i].size_bytes = directory_size_bytes(dFs0, items[i].path)
            /\ \A k \in 1..Len(produced) :
                  exists(dFs0, produced[k]) => \E i \in 1..Len(items) : items[i].path = produced[k]
            /\ \A i, j \in 1..Len(items) :
                  i < j => FirstIndex(produced, items[i].path) < FirstIndex(produced, items[j].path)
            /\ dPlan.total_bytes = Min(PlainSum(items), MaxBytes)

\* the same project listed twice with depsOnly: four candidates produced,
\* two items planned, in the order node_modules, .cache
C19_Witness ==
    /\ dPc \notin { "start", "idle" }
    /\ dReq.deps_only
    /\ dReq.entries = << DeleteEntry(ProjA, FALSE), DeleteEntry(ProjA, FALSE) >>
    /\ Len(dPlan.items) = 2
    /\ dPlan.items[1].path = join(ProjA, "node_modules")
    /\ dPlan.items[2].path = join(ProjA, ".cache")
    /\ dPlan.total_bytes = dPlan.items[1].size_bytes + dPlan.items[2].size_bytes
    /\ dPlan.total_bytes > 0

(***************************************************************************)
(* C20: in an execution that is no dry run, a plan item whose target does  *)
(* not exist when its turn comes is reported with status missing and no    *)
(* destination, changes nothing on disk or in the quarantine root, adds    *)
(* nothing to removed_count or reclaimed_bytes, and the loop goes on with  *)
(* the next item, so that a successful return has one outcome per item.    *)
(***************************************************************************)
MissingItems == { i \in 1..Len(dItems) : dItems[i].status = Status("missing") }

\* the item whose turn it is has no target on disk
TargetVanished ==
    /\ dPc = "loop"
    /\ dIdx <= Len(dPlan.items)
    /\ ~exists(dFs, dPlan.items[dIdx].path)

C20_MissingReported ==
    ~dReq.dry_run =>
        /\ \A i \in MissingItems :
              /\ dItems[i].path = dPlan.items[i].path
              /\ dItems[i].destination = None
              /\ dItems[i].original_path = None
        /\ dRemoved = Cardinality(1..Len(dItems)) - Cardinality(MissingItems) - Cardinality(ErrorItems)
        /\ dReclaimed = SumCounted(dItems, 0)
        /\ (dPc = "done" /\ dResult = "ok") => Len(dItems) = Len(dPlan.items)

C20_MissingStep ==
    TargetVanished =>
        /\ dItems' = Append(dItems,
                DeleteItemPayload(dPlan.items[dIdx].path, dPlan.items[dIdx].size_bytes,
                                  ActionName(dReq.quarantine), Status("missing"), None, None))
        /\ dFs' = dFs /\ dQExists' = dQExists /\ dQDir' = dQDir
        /\ dRemoved' = dRemoved /\ dReclaimed' = dReclaimed
        /\ dPlan' = dPlan
        /\ dIdx' = dIdx + 1
        /\ dPc' = "loop"

C20_MissingTargetSkipped == [](C20_MissingReported) /\ [][C20_MissingStep]_vars

\* removing the first item failed after it had taken the second item's
\* directory with it: the second item was reported missing and left the
\* counters to the third, which was then deleted
C20_Witness ==
    /\ dPc = "done" /\ dResult = "ok"
    /\ ~dReq.dry_run
    /\ Len(dItems) = 3
    /\ dItems[1].status[1] = "error: "
    /\ exists(dFs0, dItems[2].path)
    /\ dItems[2].status = Status("missing")
    /\ dItems[3].status = Status("deleted")
    /\ dRemoved = 1
    /\ dReclaimed = dItems[3].size_bytes

(***************************************************************************)
(* C22: persistence round trip: when write_cache(root, c) returned Ok and  *)
(* the next call is read_cache(root), with nothing written in between, the *)
(* cache read has the entries of c, whatever the two files held before and *)
(* whichever of them could be written.                                     *)
(***************************************************************************)
C22_ReadAfterWrite ==
    (stCall.op = "write" /\ stCall.ok /\ stCall'.op = "read") =>
        stCall'.cache.entries = stCall.cache.entries

C22_RoundTrip == [][C22_ReadAfterWrite]_vars

(***************************************************************************)
(* C23: in an execution that is no dry run, removed_count is the number of *)
(* outcome items with status deleted or moved, reclaimed_bytes is the sum  *)
(* of the sizes of exactly those items capped at the largest u64, hence at *)
(* most the plan's total_bytes, and an item carries a destination and an   *)
(* original path exactly when its status is moved.                         *)
(***************************************************************************)
IsRemoved(item) == item.status \in { Status("deleted"), Status("moved") }

C23_CountersMatchItems ==
    (dPc \in { "loop", "done" } /\ ~dReq.dry_run) =>
        /\ dRemoved = Len(SelectSeq(dItems, IsRemoved))
        /\ dReclaimed = Min(PlainSum(SelectSeq(dItems, IsRemoved)), MaxBytes)
        /\ dReclaimed <= dPlan.total_bytes
        /\ \A i \in 1..Len(dItems) :
              /\ dItems[i].size_bytes = dPlan.items[i].size_bytes
              /\ IsSome(dItems[i].destination) <=> dItems[i].status = Status("moved")
              /\ IsSome(dItems[i].original_path) <=> dItems[i].status = Status("moved")
              /\ IsSome(dItems[i].original_path) =>
                    Unwrap(dItems[i].original_path) = dItems[i].path

\* a quarantine run that moved its first item and failed on the second:
\* one item counted, its size reclaimed, less than the plan's total
C23_Witness ==
    /\ dPc = "done" /\ dResult = "ok"
    /\ ~dReq.dry_run /\ dReq.quarantine
    /\ Len(dItems) = 2
    /\ dItems[1].status = Status("moved") /\ IsSome(dItems[1].destination)
    /\ dItems[2].status[1] = "error: " /\ dItems[2].destination = None
    /\ dRemoved = 1
    /\ dReclaimed = dItems[1].size_bytes
    /\ dReclaimed > 0 /\ dReclaimed < dPlan.total_bytes

(***************************************************************************)
(* C21: two scans of one root with AI enabled run at once, each reading    *)
(* the cache file, filling its own copy and writing the whole file back    *)
(* with no lock.  When both have finished, the cache file is the complete  *)
(* cache of the scan whose write returned last, never a mix of the two.    *)
(***************************************************************************)
BothFinished == \A p \in Scans : rcPc[p] = "done"
LastWriter == rcOrder[Len(rcOrder)]

C21_LastWriterWins ==
    BothFinished => rcFile = Some(to_string_pretty(rcMem[LastWriter]))

\* the weaker reading: the file read back is the last writer's cache
C21_LastWriterReadBack ==
    BothFinished => read_cache(FileOf(rcFile), AbsentFile).entries = rcMem[LastWriter].entries

\* both finished and the file is the last writer's, without an entry that
\* only the other scan stored
C21_OtherScansEntryLost ==
    /\ BothFinished
    /\ rcFile = Some(to_string_pretty(rcMem[LastWriter]))
    /\ \E p \in Scans \ { LastWriter } :
          \E id \in DOMAIN rcMem[p].entries : id \notin DOMAIN rcMem[LastWriter].entries

====
